---------------------------- MODULE Spec2Model ----------------------------
(***************************************************************************)
(* Security-policy core of the antx authentication application:            *)
(*   - the in-memory rate limiter (checkRateLimit / cleanupRateLimit),     *)
(*   - the request gate (the Astro middleware onRequest).                  *)
(* Each component has its own specification (RateLimitSpec, GateSpec); the *)
(* variables of the other component stay at their initial value.           *)
(***************************************************************************)
EXTENDS Integers, Sequences, FiniteSets, TLC

VARIABLES
    now,            \* Date.now(), in model milliseconds
    rateLimitStore, \* the Map<string, {count, resetTime}>, as a set of entries
    last,           \* history: the operation performed by the latest step
    win,            \* history: per key, what happened in its current window
    shadow,         \* history: the store the same calls build when nothing is ever swept
    grants,         \* history: when the calls of each key were allowed, kept while
                    \* every call passes one maxAttempts and one windowMs
    nodeEnv,        \* process.env.NODE_ENV
    request,        \* the request the gate handled last
    locals,         \* locals.user of that request
    response,       \* the response onRequest returned for it
    nextCalls,      \* how many times that run called next()
    logged,         \* how many times that run called console.error
    thrown,         \* the message of the Error that left onRequest, or Absent
    downstream,     \* history: what next() does for this request when called
    clock,          \* the time of the one-time codes, in steps of TickSeconds
    visitor,        \* the email of the visitor of the sign-in page
    challenges,     \* the framework's store: the challenge of each (email, purpose)
    otpLast,        \* history: the latest requestOTP or verifyOTP and its outcome
    call            \* the latest call of a function of the libraries and its result

rlVars == <<now, rateLimitStore, last, win, shadow, grants>>

gateVars ==
    <<nodeEnv, request, locals, response, nextCalls, logged, thrown, downstream>>

otpVars == <<clock, visitor, challenges, otpLast>>

libVars == <<call>>

vars == <<now, rateLimitStore, last, win, shadow, grants,
          nodeEnv, request, locals, response, nextCalls, logged, thrown,
          downstream, clock, visitor, challenges, otpLast, call>>

(***************************************************************************)
(* Bounds of the model.                                                    *)
(***************************************************************************)
MaxTime == 3        \* the clock runs over 0..MaxTime
MaxAttemptsArg == 2 \* maxAttempts arguments are drawn from 0..MaxAttemptsArg
MaxWindowArg == 2   \* windowMs arguments are drawn from 1..MaxWindowArg
MaxOtpTime == 3     \* the clock of the one-time codes runs over 0..MaxOtpTime
MaxHtmlLen == 3     \* sanitizeHtml is called with strings of at most MaxHtmlLen characters
MaxPasswordStem == 2 \* the short passwords have at most MaxPasswordStem characters

Identifiers == {"user1", "user2"}
AttemptArgs == 0..MaxAttemptsArg
WindowArgs == 1..MaxWindowArg
\* history counters saturate here; always above every maxAttempts argument
CallCap == MaxAttemptsArg + 2

(***************************************************************************)
(* The Map operations the rate limiter uses.  An entry is a record         *)
(* [key, count, resetTime]; the Map is the set of its entries.             *)
(***************************************************************************)
MapHas(m, k) ==
    \E e \in m : e.key = k

MapGet(m, k) ==
    CHOOSE e \in m : e.key = k

MapSetKeepingOld(m, k, v) ==
    m \cup {[key |-> k, count |-> v.count, resetTime |-> v.resetTime]}

MapSet(m, k, v) ==
    {e \in m : e.key # k}
        \cup {[key |-> k, count |-> v.count, resetTime |-> v.resetTime]}

MapDelete(m, k) ==
    {e \in m : e.key # k}

(***************************************************************************)
(* checkRateLimit, part_006:111-126.                                       *)
(***************************************************************************)
\* line 115: now > data.resetTime
WindowExpiredInclusive(data, t) ==
    t >= data.resetTime

WindowExpired(data, t) ==
    t > data.resetTime

\* line 120: data.count >= maxAttempts
LimitReachedStrict(data, maxAttempts) ==
    data.count > maxAttempts

LimitReached(data, maxAttempts) ==
    data.count >= maxAttempts

\* line 124: data.count++ (the entry object is mutated in place)
IncrementAll(m, k) ==
    {[e EXCEPT !.count = @ + 1] : e \in m}

IncrementLost(m, k) ==
    m

IncrementByTwo(m, k) ==
    {IF e.key = k THEN [e EXCEPT !.count = @ + 2] ELSE e : e \in m}

Increment(m, k) ==
    {IF e.key = k THEN [e EXCEPT !.count = @ + 1] ELSE e : e \in m}

\* the limit is tested first: a limit of zero or less denies every call
BranchLimitFirst(m, identifier, maxAttempts, t) ==
    IF maxAttempts <= 0
    THEN "deny"
    ELSE IF ~MapHas(m, identifier) \/ WindowExpired(MapGet(m, identifier), t)
    THEN "open"
    ELSE IF LimitReached(MapGet(m, identifier), maxAttempts)
         THEN "deny"
         ELSE "count"

\* the branch checkRateLimit takes: "open" (lines 115-118), "deny" (120-122),
\* "count" (124-125)
Branch(m, identifier, maxAttempts, t) ==
    IF ~MapHas(m, identifier) \/ WindowExpired(MapGet(m, identifier), t)
    THEN "open"
    ELSE IF LimitReached(MapGet(m, identifier), maxAttempts)
         THEN "deny"
         ELSE "count"

\* the store checkRateLimit leaves
StoreAfterCheckCountingDenied(m, identifier, maxAttempts, windowMs, t) ==
    CASE Branch(m, identifier, maxAttempts, t) = "open" ->
            MapSet(m, identifier, [count |-> 1, resetTime |-> t + windowMs])
      [] OTHER -> Increment(m, identifier)

\* a denied call starts the time of the lockout again
StoreAfterCheckExtendingLockout(m, identifier, maxAttempts, windowMs, t) ==
    CASE Branch(m, identifier, maxAttempts, t) = "open" ->
            MapSet(m, identifier, [count |-> 1, resetTime |-> t + windowMs])
      [] Branch(m, identifier, maxAttempts, t) = "deny" ->
            MapSet(m, identifier, [count |-> MapGet(m, identifier).count,
                                   resetTime |-> t + windowMs])
      [] OTHER -> Increment(m, identifier)

StoreAfterCheck(m, identifier, maxAttempts, windowMs, t) ==
    CASE Branch(m, identifier, maxAttempts, t) = "open" ->
            MapSet(m, identifier, [count |-> 1, resetTime |-> t + windowMs])
      [] Branch(m, identifier, maxAttempts, t) = "deny" -> m
      [] OTHER -> Increment(m, identifier)

\* the boolean checkRateLimit returns
ResultOfCheck(m, identifier, maxAttempts, t) ==
    Branch(m, identifier, maxAttempts, t) # "deny"

(***************************************************************************)
(* cleanupRateLimit, part_006:131-138.                                     *)
(***************************************************************************)
\* line 134: now > data.resetTime
SweepExpiredInclusive(data, t) ==
    t >= data.resetTime

\* a sweep that deletes nothing
SweepNothing(data, t) ==
    FALSE

SweepExpired(data, t) ==
    t > data.resetTime

\* lines 133-137: the loop over rateLimitStore.entries(), todo the entries not
\* yet visited
RECURSIVE SweepEntries(_, _, _)
SweepEntries(m, todo, t) ==
    IF todo = {}
    THEN m
    ELSE LET e == CHOOSE x \in todo : TRUE
         IN SweepEntries(IF SweepExpired(e, t) THEN MapDelete(m, e.key) ELSE m,
                         todo \ {e}, t)

StoreAfterCleanup(m, t) ==
    SweepEntries(m, m, t)

(***************************************************************************)
(* The request gate, part_007:38-170.  Pathnames and Location values are   *)
(* sequences of one-character strings, so that startsWith and              *)
(* encodeURIComponent are computed character by character.                 *)
(***************************************************************************)
\* "/"
PathRoot ==
    <<"/">>

\* "/about"
PathAbout ==
    <<"/", "a", "b", "o", "u", "t">>

\* "/admin"
PathAdmin ==
    <<"/", "a", "d", "m", "i", "n">>

\* "/admin/users"
PathAdminUsers ==
    <<"/", "a", "d", "m", "i", "n", "/", "u", "s", "e", "r", "s">>

\* "/admin/a%20b"
PathAdminEscaped ==
    <<"/", "a", "d", "m", "i", "n", "/", "a", "%", "2", "0", "b">>

\* "/administrator"
PathAdministrator ==
    <<"/", "a", "d", "m", "i", "n", "i", "s", "t", "r", "a", "t", "o", "r">>

\* "/Admin"
PathAdminUpper ==
    <<"/", "A", "d", "m", "i", "n">>

\* "/api"
PathApi ==
    <<"/", "a", "p", "i">>

\* "/api/admin"
PathApiAdmin ==
    <<"/", "a", "p", "i", "/", "a", "d", "m", "i", "n">>

\* "/api/admin/users"
PathApiAdminUsers ==
    <<"/", "a", "p", "i", "/", "a", "d", "m", "i", "n", "/", "u", "s", "e",
      "r", "s">>

\* "/api/user"
PathApiUser ==
    <<"/", "a", "p", "i", "/", "u", "s", "e", "r">>

\* "/dashboard"
PathDashboard ==
    <<"/", "d", "a", "s", "h", "b", "o", "a", "r", "d">>

\* "/profil"
PathProfil ==
    <<"/", "p", "r", "o", "f", "i", "l">>

\* "/profile"
PathProfile ==
    <<"/", "p", "r", "o", "f", "i", "l", "e">>

\* "/account"
PathAccount ==
    <<"/", "a", "c", "c", "o", "u", "n", "t">>

\* "/organisations"
PathOrganisations ==
    <<"/", "o", "r", "g", "a", "n", "i", "s", "a", "t", "i", "o", "n", "s">>

\* "/organisations/new"
PathOrganisationsNew ==
    <<"/", "o", "r", "g", "a", "n", "i", "s", "a", "t", "i", "o", "n", "s",
      "/", "n", "e", "w">>

\* "/settings"
PathSettings ==
    <<"/", "s", "e", "t", "t", "i", "n", "g", "s">>

\* "/connexion"
PathConnexion ==
    <<"/", "c", "o", "n", "n", "e", "x", "i", "o", "n">>

\* "/connexion/aide"
PathConnexionSub ==
    <<"/", "c", "o", "n", "n", "e", "x", "i", "o", "n", "/", "a", "i", "d",
      "e">>

\* "/connexion/": the sign-in page again when the site serves a page with or
\* without its trailing slash (Astro's default, trailingSlash: "ignore")
PathConnexionSlash ==
    <<"/", "c", "o", "n", "n", "e", "x", "i", "o", "n", "/">>

\* "/inscription"
PathInscription ==
    <<"/", "i", "n", "s", "c", "r", "i", "p", "t", "i", "o", "n">>

\* "/mot-de-passe-oublie"
PathMotDePasseOublie ==
    <<"/", "m", "o", "t", "-", "d", "e", "-", "p", "a", "s", "s", "e", "-",
      "o", "u", "b", "l", "i", "e">>

\* the pathnames requested in the model
Pathnames ==
    {PathRoot, PathAbout, PathAdmin, PathAdminUsers, PathAdminEscaped,
     PathAdministrator, PathAdminUpper, PathApi, PathApiAdmin,
     PathApiAdminUsers, PathApiUser, PathDashboard, PathProfil, PathProfile,
     PathAccount, PathOrganisations, PathOrganisationsNew, PathSettings,
     PathConnexion, PathConnexionSub, PathConnexionSlash, PathInscription,
     PathMotDePasseOublie}

\* url.search of the requests of the model
Searches == {"", "?redirect=https://evil.example/", "?next=/admin"}

\* lines 43-53
PRIVATE_PATHS_WithoutSettings ==
    {PathDashboard, PathProfil, PathProfile, PathAccount, PathAdmin,
     PathOrganisations}

PRIVATE_PATHS ==
    {PathDashboard, PathProfil, PathProfile, PathAccount, PathAdmin,
     PathOrganisations, PathSettings, PathApiAdmin, PathApiUser}

\* lines 56-59
ADMIN_PATHS ==
    {PathAdmin, PathApiAdmin}

\* lines 62-66
AUTH_PATHS ==
    {PathConnexion, PathInscription, PathMotDePasseOublie}

\* String.prototype.startsWith
StartsWith(s, prefix) ==
    /\ Len(s) >= Len(prefix)
    /\ SubSeq(s, 1, Len(prefix)) = prefix

\* the characters encodeURIComponent leaves as they are
Unreserved ==
    {"a", "b", "c", "d", "e", "f", "g", "h", "i", "j", "k", "l", "m", "n",
    "o", "p", "q", "r", "s", "t", "u", "v", "w", "x", "y", "z", "A", "B",
    "C", "D", "E", "F", "G", "H", "I", "J", "K", "L", "M", "N", "O", "P",
    "Q", "R", "S", "T", "U", "V", "W", "X", "Y", "Z", "0", "1", "2", "3",
    "4", "5", "6", "7", "8", "9", "-", "_", ".", "!", "~", "*", "'", "(",
    ")"}

\* the two hexadecimal digits of the (ASCII) character's code
PercentCode(c) ==
    CASE c = "/" -> <<"2", "F">>
      [] c = "%" -> <<"2", "5">>
      [] c = "?" -> <<"3", "F">>
      [] c = "=" -> <<"3", "D">>
      [] c = "&" -> <<"2", "6">>
      [] c = "#" -> <<"2", "3">>
      [] c = ":" -> <<"3", "A">>
      [] c = "+" -> <<"2", "B">>
      [] c = " " -> <<"2", "0">>

EncodeChar(c) ==
    IF c \in Unreserved THEN <<c>> ELSE <<"%">> \o PercentCode(c)

RECURSIVE EncodeAll(_)
EncodeAll(s) ==
    IF s = <<>> THEN <<>> ELSE EncodeChar(Head(s)) \o EncodeAll(Tail(s))

NotEncoded(s) ==
    s

\* encodeURIComponent, as used at lines 97 and 118
encodeURIComponent(s) ==
    EncodeAll(s)

\* "/connexion?redirect="
SignInWithRedirect ==
    <<"/", "c", "o", "n", "n", "e", "x", "i", "o", "n", "?", "r", "e", "d",
      "i", "r", "e", "c", "t", "=">>

\* a header that is not set, and a Location that is not set
Absent == "(absent)"
NoLocation == <<>>

HeaderNames ==
    {"Content-Type", "X-Frame-Options", "X-Content-Type-Options",
     "Referrer-Policy", "X-XSS-Protection", "Content-Security-Policy",
     "Strict-Transport-Security"}

NoHeaders == [h \in HeaderNames |-> Absent]

\* new Response(null, {status, headers}): no body
NewResponse(status, location, contentType) ==
    [status |-> status, body |-> "", location |-> location,
     headers |-> [NoHeaders EXCEPT !["Content-Type"] = contentType]]

\* auth.api.getSession: it throws, resolves to null, or resolves to
\* {user, session}; role "(none)" is a user without a role, and banned is
\* the ban status the user record carries
Roles == {"admin", "user", "Admin", "(none)"}
SessionResults ==
    {[kind |-> "throws", role |-> "(none)", banned |-> FALSE],
     [kind |-> "null", role |-> "(none)", banned |-> FALSE]}
        \cup {[kind |-> "session", role |-> r, banned |-> b] :
                r \in Roles, b \in BOOLEAN}

\* lines 76-77: locals.user = result?.user ?? null
NoUser == [present |-> FALSE, role |-> "(none)", banned |-> FALSE]
LocalsUser(result) ==
    IF result.kind = "session"
    THEN [present |-> TRUE, role |-> result.role, banned |-> result.banned]
    ELSE NoUser

\* the message of the Error that getSession or next() throws: an internal
\* detail, which no client should see
FaultMessage == "connect ECONNREFUSED 127.0.0.1:5432"

\* next(): the downstream handler throws or returns its response
NextOutcomes ==
    {[kind |-> "throws", response |-> NewResponse(500, NoLocation, Absent)],
     [kind |-> "response",
      response |-> [status |-> 200, body |-> "page", location |-> NoLocation,
                    headers |-> [NoHeaders EXCEPT !["Content-Type"] = "text/html"]]],
     [kind |-> "response",
      response |-> [status |-> 200, body |-> "page", location |-> NoLocation,
                    headers |-> [NoHeaders EXCEPT
                                   !["Content-Type"] = "text/html",
                                   !["X-Frame-Options"] = "SAMEORIGIN",
                                   !["Content-Security-Policy"] = "default-src *"]]],
     [kind |-> "response",
      response |-> [status |-> 404, body |-> "not found", location |-> NoLocation,
                    headers |-> [NoHeaders EXCEPT !["Content-Type"] = "text/html"]]]}

\* line 82: AUTH_PATHS.includes(url.pathname)
IsAuthPage(pathname) ==
    pathname \in AUTH_PATHS

\* line 92: ADMIN_PATHS.some((path) => url.pathname.startsWith(path))
IsAdminPath(pathname) ==
    \E path \in ADMIN_PATHS : StartsWith(pathname, path)

\* line 114: PRIVATE_PATHS.some((path) => url.pathname.startsWith(path))
IsPrivatePath(pathname) ==
    \E path \in PRIVATE_PATHS : StartsWith(pathname, path)

\* line 103: locals.user.role !== "admin"
AnyUserIsAdmin(user) ==
    TRUE

\* no role passes the test
NoUserIsAdmin(user) ==
    FALSE

\* a banned administrator is no administrator
AdminUnlessBanned(user) ==
    user.role = "admin" /\ ~user.banned

\* the sign-in redirect carries the pathname as it is
RedirectToSignInRaw(pathname) ==
    NewResponse(302, SignInWithRedirect \o pathname, Absent)

\* the headers of the handler are kept, the others are set
KeepingHandlerHeaders(resp, env) ==
    [resp EXCEPT !.headers =
        [h \in HeaderNames |->
            IF resp.headers[h] # Absent
            THEN resp.headers[h]
            ELSE CASE h = "X-Frame-Options" -> "DENY"
                   [] h = "X-Content-Type-Options" -> "nosniff"
                   [] h = "Referrer-Policy" -> "strict-origin-when-cross-origin"
                   [] h = "X-XSS-Protection" -> "1; mode=block"
                   [] h = "Content-Security-Policy" -> "default-src 'self'"
                   [] OTHER -> Absent]]

HasAdminRole(user) ==
    user.role = "admin"

\* lines 94-99 and 115-120: the redirect to the sign-in page
RedirectToSignIn(pathname) ==
    NewResponse(302, SignInWithRedirect \o encodeURIComponent(pathname), Absent)

\* lines 81-124: the response of the inner function, or "next" when it calls
\* next()
Decide(pathname, user) ==
    IF IsAuthPage(pathname) /\ user.present
    THEN [kind |-> "response",
          response |-> NewResponse(302, PathDashboard, Absent)]
    ELSE IF IsAdminPath(pathname) /\ ~user.present
    THEN [kind |-> "response", response |-> RedirectToSignIn(pathname)]
    ELSE IF IsAdminPath(pathname) /\ ~HasAdminRole(user)
    THEN [kind |-> "response",
          response |-> NewResponse(403, NoLocation, "text/html")]
    ELSE IF IsPrivatePath(pathname) /\ ~user.present
    THEN [kind |-> "response", response |-> RedirectToSignIn(pathname)]
    ELSE [kind |-> "next", response |-> NewResponse(0, NoLocation, Absent)]

\* lines 138-144: the directives of the policy, each with its sources
CspDirectives ==
    <<[name |-> "default-src", sources |-> <<"'self'">>],
      [name |-> "script-src",
       sources |-> <<"'self'", "'unsafe-inline'", "'unsafe-eval'">>],
      [name |-> "style-src", sources |-> <<"'self'", "'unsafe-inline'">>],
      [name |-> "img-src", sources |-> <<"'self'", "data:", "https:">>],
      [name |-> "font-src", sources |-> <<"'self'">>],
      [name |-> "connect-src", sources |-> <<"'self'">>],
      [name |-> "frame-ancestors", sources |-> <<"'none'">>]>>

\* the words of a directive, each after a space
RECURSIVE SourceList(_)
SourceList(sources) ==
    IF sources = <<>>
    THEN ""
    ELSE " " \o Head(sources) \o SourceList(Tail(sources))

\* the directives one after the other, each closed by a semicolon and
\* separated from the next by a space
RECURSIVE DirectiveList(_)
DirectiveList(directives) ==
    IF directives = <<>>
    THEN ""
    ELSE Head(directives).name \o SourceList(Head(directives).sources) \o ";"
            \o (IF Tail(directives) = <<>> THEN "" ELSE " ")
            \o DirectiveList(Tail(directives))

\* lines 136-145: the value of the Content-Security-Policy header
ContentSecurityPolicy ==
    DirectiveList(CspDirectives)

\* lines 128-154: response.headers.set(...) for each security header
WithSecurityHeaders(resp, env) ==
    [resp EXCEPT !.headers =
        [h \in HeaderNames |->
            CASE h = "X-Frame-Options" -> "DENY"
              [] h = "X-Content-Type-Options" -> "nosniff"
              [] h = "Referrer-Policy" -> "strict-origin-when-cross-origin"
              [] h = "X-XSS-Protection" -> "1; mode=block"
              [] h = "Content-Security-Policy" -> ContentSecurityPolicy
              [] h = "Strict-Transport-Security" /\ env = "production" ->
                    "max-age=31536000; includeSubDomains; preload"
              [] OTHER -> resp.headers[h]]]

\* lines 164-169: the response of the catch block
FaultResponse ==
    NewResponse(500, NoLocation, "text/html")

\* no try/catch: the Error leaves onRequest, which returns no response
Uncaught(user, calls) ==
    [response |-> NewResponse(0, NoLocation, Absent), nextCalls |-> calls,
     logged |-> 0, user |-> user, thrown |-> FaultMessage]

\* lines 158-169: the catch block logs the Error and returns the generic
\* response; onRequest resolves
Catch(user, calls) ==
    [response |-> FaultResponse, nextCalls |-> calls, logged |-> 1,
     user |-> user, thrown |-> Absent]

\* result?.user at line 76 throwing on null, as result.user would
ResolutionFaultsOnNull(result) ==
    result.kind \in {"throws", "null"}

\* lines 71-73: await auth.api.getSession(...) rejects inside the try block
ResolutionFaults(result) ==
    result.kind = "throws"

\* lines 68-170: what one run of onRequest yields
Handle(pathname, result, nextOutcome, env) ==
    IF ResolutionFaults(result)
    THEN Catch(NoUser, 0)
    ELSE LET user == LocalsUser(result)
             d    == Decide(pathname, user)
         IN IF d.kind = "response"
            THEN [response |-> WithSecurityHeaders(d.response, env),
                  nextCalls |-> 0, logged |-> 0, user |-> user,
                  thrown |-> Absent]
            ELSE IF nextOutcome.kind = "throws"
            THEN Catch(user, 1)
            ELSE [response |-> WithSecurityHeaders(nextOutcome.response, env),
                  nextCalls |-> 1, logged |-> 0, user |-> user,
                  thrown |-> Absent]

NoRequest ==
    [pathname |-> <<>>, search |-> "",
     session |-> [kind |-> "null", role |-> "(none)", banned |-> FALSE]]

(***************************************************************************)
(* History variables.  They are written from the state before the call and *)
(* from the value returned, never read by the code.                        *)
(***************************************************************************)
EntriesOf(m, k) == {e \in m : e.key = k}

NoWindow == [calls |-> 0, allowed |-> 0, slots |-> {}, max |-> 0, sameMax |-> TRUE]

NoCall ==
    [op |-> "init", key |-> "", max |-> 0, win |-> 0, had |-> FALSE,
     preCount |-> 0, preReset |-> 0, result |-> FALSE, removed |-> 0]

Min(a, b) == IF a < b THEN a ELSE b

\* the record of a checkRateLimit call made in store m
CallRecord(m, identifier, maxAttempts, windowMs, result) ==
    LET pre == EntriesOf(m, identifier)
        had == pre # {}
        e   == CHOOSE x \in pre : TRUE
    IN [op |-> "check", key |-> identifier, max |-> maxAttempts, win |-> windowMs,
        had |-> had,
        preCount |-> IF had THEN e.count ELSE 0,
        preReset |-> IF had THEN e.resetTime ELSE 0,
        result |-> result, removed |-> 0]

\* the window history of the key after a call that found the entries pre at time t:
\* calls counts the calls of the window while they all pass the same maxAttempts
\* (it saturates at max + 1, "more than max calls"), allowed counts the calls that
\* returned true, slots holds the counts those calls observed
WindowAfter(w, pre, t, maxAttempts, result) ==
    LET live == \E e \in pre : t <= e.resetTime
        seen == IF pre = {} THEN 0 ELSE (CHOOSE e \in pre : TRUE).count
        same == w.sameMax /\ maxAttempts = w.max
    IN IF ~live
       THEN [calls |-> 1, allowed |-> IF result THEN 1 ELSE 0,
             slots |-> IF result THEN {0} ELSE {},
             max |-> maxAttempts, sameMax |-> TRUE]
       ELSE [calls |-> IF same THEN Min(w.calls + 1, w.max + 1) ELSE 0,
             allowed |-> IF result THEN Min(w.allowed + 1, CallCap) ELSE w.allowed,
             slots |-> IF result THEN w.slots \cup {seen} ELSE w.slots,
             max |-> IF same THEN w.max ELSE 0,
             sameMax |-> same]

\* no history of the allowed calls is kept
NoGrants == [on |-> FALSE]

\* the history of the allowed calls before the first call, for callers that
\* always pass maxAttempts and windowMs
GrantsFor(maxAttempts, windowMs) ==
    [on |-> TRUE, max |-> maxAttempts, win |-> windowMs,
     at |-> [k \in Identifiers |-> [t \in 0..MaxTime |-> 0]]]

\* the history of the allowed calls after a call for the key at time t
GrantsAfter(g, identifier, t, result) ==
    IF g.on /\ result
    THEN [g EXCEPT !.at[identifier][t] = @ + 1]
    ELSE g

(***************************************************************************)
(* Actions of the rate limiter.  checkRateLimit and cleanupRateLimit are   *)
(* synchronous functions (no await): each call is one step of the event    *)
(* loop, whichever request or timer makes it.                              *)
(***************************************************************************)
checkRateLimit(identifier, maxAttempts, windowMs) ==
    LET result == ResultOfCheck(rateLimitStore, identifier, maxAttempts, now)
    IN /\ rateLimitStore' =
            StoreAfterCheck(rateLimitStore, identifier, maxAttempts, windowMs, now)
       /\ last' = CallRecord(rateLimitStore, identifier, maxAttempts, windowMs, result)
       /\ win' = [win EXCEPT ![identifier] =
                    WindowAfter(@, EntriesOf(rateLimitStore, identifier), now,
                                maxAttempts, result)]
       /\ shadow' = StoreAfterCheck(shadow, identifier, maxAttempts, windowMs, now)
       /\ grants' = GrantsAfter(grants, identifier, now, result)
       /\ UNCHANGED <<now, gateVars, otpVars, libVars>>

cleanupRateLimit ==
    /\ rateLimitStore' = StoreAfterCleanup(rateLimitStore, now)
    /\ last' = [NoCall EXCEPT !.op = "cleanup",
                            !.removed = Cardinality(rateLimitStore)
                                          - Cardinality(rateLimitStore')]
    /\ win' = [k \in Identifiers |->
                 IF EntriesOf(rateLimitStore', k) = {} THEN NoWindow ELSE win[k]]
    /\ UNCHANGED <<now, shadow, grants, gateVars, otpVars, libVars>>

\* time passes between two calls
Tick ==
    /\ now < MaxTime
    /\ now' = now + 1
    /\ last' = [NoCall EXCEPT !.op = "tick"]
    /\ UNCHANGED <<rateLimitStore, win, shadow, grants, gateVars, otpVars, libVars>>

(***************************************************************************)
(* The action of the gate: one request handled from its arrival to the     *)
(* response returned.  A run of onRequest reads and writes nothing that    *)
(* another run sees (locals belongs to the request, the path lists are     *)
(* constants), so a behaviour is one run: the request arrives in the       *)
(* initial state and the step yields its response.                         *)
(***************************************************************************)
onRequest(pathname, search, result, nextOutcome) ==
    LET run == Handle(pathname, result, nextOutcome, nodeEnv)
    IN /\ request = NoRequest
       /\ request' = [pathname |-> pathname, search |-> search, session |-> result]
       /\ locals' = run.user
       /\ response' = run.response
       /\ nextCalls' = run.nextCalls
       /\ logged' = run.logged
       /\ thrown' = run.thrown
       /\ downstream' = nextOutcome
       /\ UNCHANGED <<nodeEnv, rlVars, otpVars, libVars>>

(***************************************************************************)
(* The validators of security.ts.  Strings that the code inspects          *)
(* character by character are sequences of one-character strings.          *)
(***************************************************************************)
LowerCase ==
    {"a", "b", "c", "d", "e", "f", "g", "h", "i", "j", "k", "l", "m", "n",
     "o", "p", "q", "r", "s", "t", "u", "v", "w", "x", "y", "z"}

UpperCase ==
    {"A", "B", "C", "D", "E", "F", "G", "H", "I", "J", "K", "L", "M", "N",
     "O", "P", "Q", "R", "S", "T", "U", "V", "W", "X", "Y", "Z"}

\* \d
Digit ==
    {"0", "1", "2", "3", "4", "5", "6", "7", "8", "9"}

\* [a-zA-Z0-9]
AlphaNum ==
    LowerCase \cup UpperCase \cup Digit

\* line 7: the characters of the local part, [a-zA-Z0-9.!#$%&'*+/=?^_{|}~-]
\* and the grave accent, which no string of the model holds
LocalPartChars ==
    AlphaNum \cup {".", "!", "#", "$", "%", "&", "'", "*", "+", "/", "=", "?",
                   "^", "_", "{", "|", "}", "~", "-"}

\* line 7: [a-zA-Z0-9](?:[a-zA-Z0-9-]{0,61}[a-zA-Z0-9])?, one label of the domain
IsLabel(s) ==
    /\ Len(s) >= 1
    /\ Len(s) <= 63
    /\ s[1] \in AlphaNum
    /\ s[Len(s)] \in AlphaNum
    /\ \A i \in 1..Len(s) : s[i] \in AlphaNum \cup {"-"}

\* line 7: label(?:\.label)*, the labels being the stretches between the dots
IsDomain(s) ==
    LET dots == {0, Len(s) + 1} \cup {i \in 1..Len(s) : s[i] = "."}
    IN \A a \in dots, b \in dots :
          (a < b /\ \A c \in dots : ~(a < c /\ c < b))
              => IsLabel(SubSeq(s, a + 1, b - 1))

\* the test accepts every string that is not too long
isValidEmailAnything(email) ==
    Len(email) <= 254

\* lines 6-9: emailRegex.test(email) && email.length <= 254
isValidEmail(email) ==
    /\ \E at \in 1..Len(email) :
          /\ email[at] = "@"
          /\ at > 1
          /\ \A i \in 1..(at - 1) : email[i] \in LocalPartChars
          /\ IsDomain(SubSeq(email, at + 1, Len(email)))
    /\ Len(email) <= 254

\* the test accepts any six characters
isValidOTPAnyCharacter(otp) ==
    Len(otp) = 6

\* lines 102-104: /^\d{6}$/.test(otp)
isValidOTP(otp) ==
    /\ Len(otp) = 6
    /\ \A i \in 1..6 : otp[i] \in Digit

\* String.prototype.replace(/c/g, entity)
RECURSIVE ReplaceAll(_, _, _)
ReplaceAll(s, c, entity) ==
    IF s = <<>>
    THEN <<>>
    ELSE (IF Head(s) = c THEN entity ELSE <<Head(s)>>)
            \o ReplaceAll(Tail(s), c, entity)

\* the ampersand is replaced last, after the entities have been written
sanitizeHtmlAmpersandLast(input) ==
    LET lt   == ReplaceAll(input, "<", <<"&", "l", "t", ";">>)
        gt   == ReplaceAll(lt, ">", <<"&", "g", "t", ";">>)
        quot == ReplaceAll(gt, "\"", <<"&", "q", "u", "o", "t", ";">>)
        apos == ReplaceAll(quot, "'", <<"&", "#", "0", "3", "9", ";">>)
    IN ReplaceAll(apos, "&", <<"&", "a", "m", "p", ";">>)

\* lines 90-97: the five replacements, & first
sanitizeHtml(input) ==
    LET amp  == ReplaceAll(input, "&", <<"&", "a", "m", "p", ";">>)
        lt   == ReplaceAll(amp, "<", <<"&", "l", "t", ";">>)
        gt   == ReplaceAll(lt, ">", <<"&", "g", "t", ";">>)
        quot == ReplaceAll(gt, "\"", <<"&", "q", "u", "o", "t", ";">>)
    IN ReplaceAll(quot, "'", <<"&", "#", "0", "3", "9", ";">>)

\* line 37: [!@#$%^&*()_+\-=\[\]{};':"\\|,.<>\/?]
SpecialChars ==
    {"!", "@", "#", "$", "%", "^", "&", "*", "(", ")", "_", "+", "-", "=",
     "[", "]", "{", "}", ";", "'", ":", "\"", "\\", "|", ",", ".", "<", ">",
     "/", "?"}

\* line 43: String.prototype.toLowerCase, on the letters A to Z
toLowerCase(s) ==
    LET lower == <<"a", "b", "c", "d", "e", "f", "g", "h", "i", "j", "k", "l",
                   "m", "n", "o", "p", "q", "r", "s", "t", "u", "v", "w", "x",
                   "y", "z">>
        upper == <<"A", "B", "C", "D", "E", "F", "G", "H", "I", "J", "K", "L",
                   "M", "N", "O", "P", "Q", "R", "S", "T", "U", "V", "W", "X",
                   "Y", "Z">>
    IN [i \in 1..Len(s) |->
          IF \E k \in 1..Len(upper) : upper[k] = s[i]
          THEN lower[CHOOSE k \in 1..Len(upper) : upper[k] = s[i]]
          ELSE s[i]]

\* line 42: commonPasswords
commonPasswords ==
    {<<"p", "a", "s", "s", "w", "o", "r", "d">>,
     <<"1", "2", "3", "4", "5", "6">>,
     <<"a", "d", "m", "i", "n">>,
     <<"p", "a", "s", "s", "w", "o", "r", "d", "1", "2", "3">>,
     <<"q", "w", "e", "r", "t", "y">>}

\* lines 15-45: the errors pushed, in the order of the tests
PasswordErrors(password) ==
    (IF Len(password) < 8
     THEN <<"Le mot de passe doit contenir au moins 8 caractères">>
     ELSE <<>>)
    \o (IF Len(password) > 128
        THEN <<"Le mot de passe ne peut pas dépasser 128 caractères">>
        ELSE <<>>)
    \o (IF ~\E i \in 1..Len(password) : password[i] \in LowerCase
        THEN <<"Le mot de passe doit contenir au moins une minuscule">>
        ELSE <<>>)
    \o (IF ~\E i \in 1..Len(password) : password[i] \in UpperCase
        THEN <<"Le mot de passe doit contenir au moins une majuscule">>
        ELSE <<>>)
    \o (IF ~\E i \in 1..Len(password) : password[i] \in Digit
        THEN <<"Le mot de passe doit contenir au moins un chiffre">>
        ELSE <<>>)
    \o (IF ~\E i \in 1..Len(password) : password[i] \in SpecialChars
        THEN <<"Le mot de passe doit contenir au moins un caractère spécial">>
        ELSE <<>>)
    \o (IF toLowerCase(password) \in commonPasswords
        THEN <<"Ce mot de passe est trop commun">>
        ELSE <<>>)

\* the validation stops at the first error
validatePasswordFirstErrorOnly(password) ==
    [isValid |-> PasswordErrors(password) = <<>>,
     errors |-> SubSeq(PasswordErrors(password), 1, 1)]

\* lines 14-51
validatePassword(password) ==
    [isValid |-> Len(PasswordErrors(password)) = 0,
     errors |-> PasswordErrors(password)]

(***************************************************************************)
(* The error mapper of error-messages.ts.  A message is a string; the      *)
(* tests message === "..." compare whole strings, and message.includes     *)
(* searches the characters of the message, which TextOf gives.             *)
(***************************************************************************)
\* the messages passed to mapErrorMessage in the model: the keys of its table,
\* messages with and without its keywords, the messages the OTP callback
\* throws, and the empty string
ErrorMessages ==
    {"Invalid email or password", "Invalid credentials",
     "Email not verified", "Account banned", "User not found",
     "Email already exists", "Sign-up attempt for existing email",
     "Username already exists", "Password too short", "Invalid email",
     "Missing required field", "Invalid OTP", "Invalid verification code",
     "OTP expired", "Verification code expired", "Too many OTP attempts",
     "You can only send a verification email to an unverified email",
     "Password reset token expired", "Invalid password reset token",
     "Organization not found", "Organization already exists",
     "Invalid invitation", "User already in organization",
     "Rate limit exceeded", "rate limit exceeded",
     "too many requests, slow down", "Too Many Requests", "network error",
     "Failed to fetch", "Internal server error",
     "Request failed with status code 500",
     "Organization not found on this server",
     "Impossible d'envoyer le code de vérification",
     "Missing required parameters", "Invalid email format",
     "Invalid OTP format", "Invalid OTP type",
     "connect ECONNREFUSED 127.0.0.1:5432", "invalid otp",
     "Some unknown error message", "Unknown complex error",
     "duplicate key value violates unique constraint user_email_key",
     "TypeError: Cannot read properties of undefined (reading 'id')", ""}

\* the characters of a message
TextOf(message) ==
    CASE message = "Invalid email or password" ->
            <<"I", "n", "v", "a", "l", "i", "d", " ", "e", "m", "a", "i",
              "l", " ", "o", "r", " ", "p", "a", "s", "s", "w", "o", "r",
              "d">>
      [] message = "Invalid credentials" ->
            <<"I", "n", "v", "a", "l", "i", "d", " ", "c", "r", "e", "d",
              "e", "n", "t", "i", "a", "l", "s">>
      [] message = "Email not verified" ->
            <<"E", "m", "a", "i", "l", " ", "n", "o", "t", " ", "v", "e",
              "r", "i", "f", "i", "e", "d">>
      [] message = "Account banned" ->
            <<"A", "c", "c", "o", "u", "n", "t", " ", "b", "a", "n", "n",
              "e", "d">>
      [] message = "User not found" ->
            <<"U", "s", "e", "r", " ", "n", "o", "t", " ", "f", "o", "u",
              "n", "d">>
      [] message = "Email already exists" ->
            <<"E", "m", "a", "i", "l", " ", "a", "l", "r", "e", "a", "d",
              "y", " ", "e", "x", "i", "s", "t", "s">>
      [] message = "Sign-up attempt for existing email" ->
            <<"S", "i", "g", "n", "-", "u", "p", " ", "a", "t", "t", "e",
              "m", "p", "t", " ", "f", "o", "r", " ", "e", "x", "i", "s",
              "t", "i", "n", "g", " ", "e", "m", "a", "i", "l">>
      [] message = "Username already exists" ->
            <<"U", "s", "e", "r", "n", "a", "m", "e", " ", "a", "l", "r",
              "e", "a", "d", "y", " ", "e", "x", "i", "s", "t", "s">>
      [] message = "Password too short" ->
            <<"P", "a", "s", "s", "w", "o", "r", "d", " ", "t", "o", "o",
              " ", "s", "h", "o", "r", "t">>
      [] message = "Invalid email" ->
            <<"I", "n", "v", "a", "l", "i", "d", " ", "e", "m", "a", "i",
              "l">>
      [] message = "Missing required field" ->
            <<"M", "i", "s", "s", "i", "n", "g", " ", "r", "e", "q", "u",
              "i", "r", "e", "d", " ", "f", "i", "e", "l", "d">>
      [] message = "Invalid OTP" ->
            <<"I", "n", "v", "a", "l", "i", "d", " ", "O", "T", "P">>
      [] message = "Invalid verification code" ->
            <<"I", "n", "v", "a", "l", "i", "d", " ", "v", "e", "r", "i",
              "f", "i", "c", "a", "t", "i", "o", "n", " ", "c", "o", "d",
              "e">>
      [] message = "OTP expired" ->
            <<"O", "T", "P", " ", "e", "x", "p", "i", "r", "e", "d">>
      [] message = "Verification code expired" ->
            <<"V", "e", "r", "i", "f", "i", "c", "a", "t", "i", "o", "n",
              " ", "c", "o", "d", "e", " ", "e", "x", "p", "i", "r", "e",
              "d">>
      [] message = "Too many OTP attempts" ->
            <<"T", "o", "o", " ", "m", "a", "n", "y", " ", "O", "T", "P",
              " ", "a", "t", "t", "e", "m", "p", "t", "s">>
      [] message = "You can only send a verification email to an unverified email" ->
            <<"Y", "o", "u", " ", "c", "a", "n", " ", "o", "n", "l", "y",
              " ", "s", "e", "n", "d", " ", "a", " ", "v", "e", "r", "i",
              "f", "i", "c", "a", "t", "i", "o", "n", " ", "e", "m", "a",
              "i", "l", " ", "t", "o", " ", "a", "n", " ", "u", "n", "v",
              "e", "r", "i", "f", "i", "e", "d", " ", "e", "m", "a", "i",
              "l">>
      [] message = "Password reset token expired" ->
            <<"P", "a", "s", "s", "w", "o", "r", "d", " ", "r", "e", "s",
              "e", "t", " ", "t", "o", "k", "e", "n", " ", "e", "x", "p",
              "i", "r", "e", "d">>
      [] message = "Invalid password reset token" ->
            <<"I", "n", "v", "a", "l", "i", "d", " ", "p", "a", "s", "s",
              "w", "o", "r", "d", " ", "r", "e", "s", "e", "t", " ", "t",
              "o", "k", "e", "n">>
      [] message = "Organization not found" ->
            <<"O", "r", "g", "a", "n", "i", "z", "a", "t", "i", "o", "n",
              " ", "n", "o", "t", " ", "f", "o", "u", "n", "d">>
      [] message = "Organization already exists" ->
            <<"O", "r", "g", "a", "n", "i", "z", "a", "t", "i", "o", "n",
              " ", "a", "l", "r", "e", "a", "d", "y", " ", "e", "x", "i",
              "s", "t", "s">>
      [] message = "Invalid invitation" ->
            <<"I", "n", "v", "a", "l", "i", "d", " ", "i", "n", "v", "i",
              "t", "a", "t", "i", "o", "n">>
      [] message = "User already in organization" ->
            <<"U", "s", "e", "r", " ", "a", "l", "r", "e", "a", "d", "y",
              " ", "i", "n", " ", "o", "r", "g", "a", "n", "i", "z", "a",
              "t", "i", "o", "n">>
      [] message = "Rate limit exceeded" ->
            <<"R", "a", "t", "e", " ", "l", "i", "m", "i", "t", " ", "e",
              "x", "c", "e", "e", "d", "e", "d">>
      [] message = "rate limit exceeded" ->
            <<"r", "a", "t", "e", " ", "l", "i", "m", "i", "t", " ", "e",
              "x", "c", "e", "e", "d", "e", "d">>
      [] message = "too many requests, slow down" ->
            <<"t", "o", "o", " ", "m", "a", "n", "y", " ", "r", "e", "q",
              "u", "e", "s", "t", "s", ",", " ", "s", "l", "o", "w", " ",
              "d", "o", "w", "n">>
      [] message = "Too Many Requests" ->
            <<"T", "o", "o", " ", "M", "a", "n", "y", " ", "R", "e", "q",
              "u", "e", "s", "t", "s">>
      [] message = "network error" ->
            <<"n", "e", "t", "w", "o", "r", "k", " ", "e", "r", "r", "o",
              "r">>
      [] message = "Failed to fetch" ->
            <<"F", "a", "i", "l", "e", "d", " ", "t", "o", " ", "f", "e",
              "t", "c", "h">>
      [] message = "Internal server error" ->
            <<"I", "n", "t", "e", "r", "n", "a", "l", " ", "s", "e", "r",
              "v", "e", "r", " ", "e", "r", "r", "o", "r">>
      [] message = "Request failed with status code 500" ->
            <<"R", "e", "q", "u", "e", "s", "t", " ", "f", "a", "i", "l",
              "e", "d", " ", "w", "i", "t", "h", " ", "s", "t", "a", "t",
              "u", "s", " ", "c", "o", "d", "e", " ", "5", "0", "0">>
      [] message = "Organization not found on this server" ->
            <<"O", "r", "g", "a", "n", "i", "z", "a", "t", "i", "o", "n",
              " ", "n", "o", "t", " ", "f", "o", "u", "n", "d", " ", "o",
              "n", " ", "t", "h", "i", "s", " ", "s", "e", "r", "v", "e",
              "r">>
      [] message = "Impossible d'envoyer le code de vérification" ->
            <<"I", "m", "p", "o", "s", "s", "i", "b", "l", "e", " ", "d",
              "'", "e", "n", "v", "o", "y", "e", "r", " ", "l", "e", " ",
              "c", "o", "d", "e", " ", "d", "e", " ", "v", "é", "r", "i",
              "f", "i", "c", "a", "t", "i", "o", "n">>
      [] message = "Missing required parameters" ->
            <<"M", "i", "s", "s", "i", "n", "g", " ", "r", "e", "q", "u",
              "i", "r", "e", "d", " ", "p", "a", "r", "a", "m", "e", "t",
              "e", "r", "s">>
      [] message = "Invalid email format" ->
            <<"I", "n", "v", "a", "l", "i", "d", " ", "e", "m", "a", "i",
              "l", " ", "f", "o", "r", "m", "a", "t">>
      [] message = "Invalid OTP format" ->
            <<"I", "n", "v", "a", "l", "i", "d", " ", "O", "T", "P", " ",
              "f", "o", "r", "m", "a", "t">>
      [] message = "Invalid OTP type" ->
            <<"I", "n", "v", "a", "l", "i", "d", " ", "O", "T", "P", " ",
              "t", "y", "p", "e">>
      [] message = "connect ECONNREFUSED 127.0.0.1:5432" ->
            <<"c", "o", "n", "n", "e", "c", "t", " ", "E", "C", "O", "N",
              "N", "R", "E", "F", "U", "S", "E", "D", " ", "1", "2", "7",
              ".", "0", ".", "0", ".", "1", ":", "5", "4", "3", "2">>
      [] message = "invalid otp" ->
            <<"i", "n", "v", "a", "l", "i", "d", " ", "o", "t", "p">>
      [] message = "Some unknown error message" ->
            <<"S", "o", "m", "e", " ", "u", "n", "k", "n", "o", "w", "n",
              " ", "e", "r", "r", "o", "r", " ", "m", "e", "s", "s", "a",
              "g", "e">>
      [] message = "Unknown complex error" ->
            <<"U", "n", "k", "n", "o", "w", "n", " ", "c", "o", "m", "p",
              "l", "e", "x", " ", "e", "r", "r", "o", "r">>
      [] message = "duplicate key value violates unique constraint user_email_key" ->
            <<"d", "u", "p", "l", "i", "c", "a", "t", "e", " ", "k", "e",
              "y", " ", "v", "a", "l", "u", "e", " ", "v", "i", "o", "l",
              "a", "t", "e", "s", " ", "u", "n", "i", "q", "u", "e", " ",
              "c", "o", "n", "s", "t", "r", "a", "i", "n", "t", " ", "u",
              "s", "e", "r", "_", "e", "m", "a", "i", "l", "_", "k", "e",
              "y">>
      [] message = "TypeError: Cannot read properties of undefined (reading 'id')" ->
            <<"T", "y", "p", "e", "E", "r", "r", "o", "r", ":", " ", "C",
              "a", "n", "n", "o", "t", " ", "r", "e", "a", "d", " ", "p",
              "r", "o", "p", "e", "r", "t", "i", "e", "s", " ", "o", "f",
              " ", "u", "n", "d", "e", "f", "i", "n", "e", "d", " ", "(",
              "r", "e", "a", "d", "i", "n", "g", " ", "'", "i", "d", "'",
              ")">>
      [] OTHER -> <<>>

\* String.prototype.includes, on the characters
Includes(text, keyword) ==
    \E i \in 0..(Len(text) - Len(keyword)) :
        SubSeq(text, i + 1, i + Len(keyword)) = keyword

\* the name of the type stands for a missing message
MessageOrType(error) ==
    IF error.message = Absent THEN error.type ELSE error.message

\* line 18: typeof error === 'string' ? error : error?.message; the argument
\* is [type, message], the message being Absent for null, undefined and an
\* object without one
MessageOf(error) ==
    error.message

\* lines 22-73: the tests message === "..." before the keyword tests
ExactBeforeKeywords(message) ==
    CASE message \in {"Invalid email or password", "Invalid credentials"} ->
            "Email ou mot de passe incorrect."
      [] message = "Email not verified" ->
            "Veuillez vérifier votre adresse email avant de vous connecter."
      [] message = "Account banned" ->
            "Ce compte est banni."
      [] message = "User not found" ->
            "Utilisateur introuvable."
      [] message \in {"Email already exists", "Sign-up attempt for existing email"} ->
            "Cet email est déjà utilisé. Connectez-vous ou vérifiez vos emails."
      [] message = "Username already exists" ->
            "Ce nom d'utilisateur est déjà pris. Choisissez-en un autre."
      [] message = "Password too short" ->
            "Mot de passe trop court (minimum 8 caractères)."
      [] message = "Invalid email" ->
            "Adresse email invalide."
      [] message = "Missing required field" ->
            "Un champ requis est manquant."
      [] message \in {"Invalid OTP", "Invalid verification code"} ->
            "Code de vérification invalide."
      [] message \in {"OTP expired", "Verification code expired"} ->
            "Code de vérification expiré. Demandez un nouveau code."
      [] message = "Too many OTP attempts" ->
            "Trop de tentatives. Veuillez patienter avant de réessayer."
      [] message = "You can only send a verification email to an unverified email" ->
            "Impossible de renvoyer l'email : cette adresse est déjà vérifiée ou n'existe pas."
      [] message = "Password reset token expired" ->
            "Le lien de réinitialisation a expiré. Demandez un nouveau lien."
      [] message = "Invalid password reset token" ->
            "Lien de réinitialisation invalide."
      [] OTHER -> "(no match)"

\* no keyword is looked for
KeywordMatchNone(message) ==
    "(no match)"

\* lines 76-86: the keyword tests
KeywordMatch(message) ==
    LET text == TextOf(message)
        rateLimit == <<"r", "a", "t", "e", " ", "l", "i", "m", "i", "t">>
        tooManyRequests ==
            <<"t", "o", "o", " ", "m", "a", "n", "y", " ", "r", "e", "q", "u",
              "e", "s", "t", "s">>
    IN IF Includes(text, rateLimit) \/ Includes(text, tooManyRequests)
       THEN "Trop de tentatives. Veuillez patienter quelques minutes."
       ELSE IF \/ Includes(text, <<"n", "e", "t", "w", "o", "r", "k">>)
               \/ Includes(text, <<"f", "e", "t", "c", "h">>)
       THEN "Erreur de connexion. Vérifiez votre connexion internet."
       ELSE IF \/ Includes(text, <<"s", "e", "r", "v", "e", "r">>)
               \/ Includes(text, <<"5", "0", "0">>)
       THEN "Erreur serveur temporaire. Veuillez réessayer dans quelques instants."
       ELSE "(no match)"

\* lines 89-100: the tests message === "..." after the keyword tests
ExactAfterKeywords(message) ==
    CASE message = "Organization not found" ->
            "Organisation introuvable."
      [] message = "Organization already exists" ->
            "Cette organisation existe déjà."
      [] message = "Invalid invitation" ->
            "Invitation invalide ou expirée."
      [] message = "User already in organization" ->
            "Vous êtes déjà membre de cette organisation."
      [] OTHER -> "(no match)"

\* the fallback gives the message back
MapErrorEchoing(error) ==
    [text |-> error.message, warned |-> 1, warning |-> error.message]

\* lines 17-105: the string returned, the number of console.warn calls and
\* the message handed to console.warn (Absent without a call)
MapError(error) ==
    LET message == MessageOf(error)
    IN IF message \in {Absent, ""}
       THEN [text |-> "Une erreur inconnue est survenue.", warned |-> 0,
             warning |-> Absent]
       ELSE IF ExactBeforeKeywords(message) # "(no match)"
       THEN [text |-> ExactBeforeKeywords(message), warned |-> 0,
             warning |-> Absent]
       ELSE IF KeywordMatch(message) # "(no match)"
       THEN [text |-> KeywordMatch(message), warned |-> 0,
             warning |-> Absent]
       ELSE IF ExactAfterKeywords(message) # "(no match)"
       THEN [text |-> ExactAfterKeywords(message), warned |-> 0,
             warning |-> Absent]
       ELSE [text |-> "Une erreur est survenue. Veuillez réessayer.",
             warned |-> 1, warning |-> message]

mapErrorMessage(error) ==
    MapError(error).text

\* every type gets the text of the default branch
getSuccessMessageDefaultOnly(type) ==
    "Opération réussie !"

\* lines 113-136
getSuccessMessage(type) ==
    CASE type = "signup" -> "Compte créé avec succès !"
      [] type = "signup-verify" ->
            "Compte créé ! Un email de vérification a été envoyé."
      [] type = "signin" -> "Connexion réussie !"
      [] type = "otp-sent" -> "Code de vérification envoyé par email."
      [] type = "password-reset" -> "Mot de passe réinitialisé avec succès !"
      [] type = "email-verified" -> "Adresse email vérifiée avec succès !"
      [] type = "organization-created" -> "Organisation créée avec succès !"
      [] type = "invitation-sent" -> "Invitation envoyée avec succès !"
      [] type = "profile-updated" -> "Profil mis à jour avec succès !"
      [] OTHER -> "Opération réussie !"

(***************************************************************************)
(* The one-time codes.  auth.ts configures the emailOTP plugin of the      *)
(* framework and gives it the callback that sends the code; the sign-in    *)
(* pages that call the framework and the framework itself are not part of  *)
(* the sources, so the request and verification flows follow sections 3    *)
(* and 4.5 of the specification and the end-to-end tests.                  *)
(***************************************************************************)
\* a longer life
ExpiresInTwentyMinutes ==
    20 * 60

\* line 297: expiresIn, in seconds
ExpiresIn ==
    10 * 60

\* line 298: otpLength
OtpLength == 6

\* one attempt more
AllowedAttemptsFour ==
    3 + 1

\* line 299: allowedAttempts
AllowedAttempts == 3

\* the seconds of one step of the clock
TickSeconds ==
    5 * 60

\* "amy@ex.fr", the email of the one account; "bob@ex.fr", a well-formed email
\* without account; "amy.ex.fr", not an email
EmailAmy ==
    <<"a", "m", "y", "@", "e", "x", ".", "f", "r">>

EmailBob ==
    <<"b", "o", "b", "@", "e", "x", ".", "f", "r">>

EmailNoAt ==
    <<"a", "m", "y", ".", "e", "x", ".", "f", "r">>

Accounts == {EmailAmy}

\* the emails a visitor of the sign-in page may own
Visitors == {EmailAmy, EmailBob}

\* line 318: validTypes
validTypes == {"sign-in", "email-verification", "forget-password"}

\* the purposes of the requests of the model ("password-reset" is not a type
\* of the plugin) and of its verifications
RequestPurposes == {"sign-in", "password-reset"}
VerifyPurposes == {"sign-in", "forget-password"}

\* the codes the framework generates in the model, of otpLength digits
Codes ==
    {c \in {<<"1", "2", "3", "4", "5", "6">>, <<"6", "5", "4", "3", "2", "1">>} :
        Len(c) = OtpLength}

\* the codes typed into the verification form
CodeInputs ==
    Codes \cup {<<"1", "2", "a", "4", "5", "6">>}

\* sendEmail resolves with {success: true}, resolves with {success: false}
\* or rejects
TransportOutcomes == {"sent", "failed", "throws"}

\* what a request meets on its way: the rate limiter refuses it, or it passes
\* and sendEmail, if called, has one of its outcomes
RequestConditions == {"limited"} \cup TransportOutcomes

\* lines 323-327
SubjectOf(type) ==
    IF type = "sign-in"
    THEN "Code de connexion - ANTX"
    ELSE IF type = "email-verification"
    THEN "Vérifiez votre adresse email - ANTX"
    ELSE "Réinitialisation de mot de passe - ANTX"

NoMail == [to |-> <<>>, subject |-> "", otp |-> <<>>]

\* lines 301-465: sendVerificationOTP({email, otp, type}); the message of the
\* Error it throws (or Absent), the number of sendEmail calls and the mail
\* handed to sendEmail
sendVerificationOTP(email, otp, type, transport) ==
    IF email = <<>> \/ otp = <<>> \/ type = ""
    THEN [thrown |-> "Missing required parameters", sendEmailCalls |-> 0,
          mail |-> NoMail]
    ELSE IF ~isValidEmail(email)
    THEN [thrown |-> "Invalid email format", sendEmailCalls |-> 0,
          mail |-> NoMail]
    ELSE IF ~isValidOTP(otp)
    THEN [thrown |-> "Invalid OTP format", sendEmailCalls |-> 0,
          mail |-> NoMail]
    ELSE IF type \notin validTypes
    THEN [thrown |-> "Invalid OTP type", sendEmailCalls |-> 0,
          mail |-> NoMail]
    ELSE [thrown |-> IF transport = "throws"
                     THEN "Impossible d'envoyer le code de vérification"
                     ELSE Absent,
          sendEmailCalls |-> 1,
          mail |-> [to |-> email, subject |-> SubjectOf(type),
                    otp |-> sanitizeHtml(otp)]]

\* the challenges of (email, purpose) in the framework's store
ChallengesOf(chs, email, purpose) ==
    {c \in chs : c.email = email /\ c.purpose = purpose}

NoChallenge ==
    [email |-> <<>>, purpose |-> "", code |-> <<>>, superseded |-> <<>>,
     issuedAt |-> 0, expiresAt |-> 0, failed |-> 0, status |-> "None"]

\* the challenge of (email, purpose), NoChallenge when there is none
CurrentChallenge(chs, email, purpose) ==
    IF ChallengesOf(chs, email, purpose) = {}
    THEN NoChallenge
    ELSE CHOOSE c \in ChallengesOf(chs, email, purpose) : TRUE

\* the state of a challenge at time t: Issued becomes Expired when its time
\* is over
StateOf(c, t) ==
    IF c.status = "Issued" /\ t > c.expiresAt THEN "Expired" ELSE c.status

\* the framework stores a new challenge in place of the one of the same email
\* and purpose; a challenge replaced while Issued is superseded, and the new
\* one remembers its code
StoreChallenge(chs, email, purpose, otp, t) ==
    LET old == CurrentChallenge(chs, email, purpose)
    IN (chs \ ChallengesOf(chs, email, purpose))
          \cup {[email |-> email, purpose |-> purpose, code |-> otp,
                 superseded |-> IF StateOf(old, t) = "Issued"
                                THEN old.code
                                ELSE <<>>,
                 issuedAt |-> t,
                 expiresAt |-> t + ExpiresIn \div TickSeconds,
                 failed |-> 0, status |-> "Issued"]}

\* requestOTP(email, purpose): validation, rate limiting, then the framework
\* generates and stores the code and calls sendVerificationOTP, whether or
\* not the email has an account
RequestOTP(chs, email, purpose, otp, condition, t) ==
    IF ~isValidEmail(email)
    THEN [challenges |-> chs, error |-> "Invalid email format",
          issued |-> FALSE, sendEmailCalls |-> 0, mail |-> NoMail]
    ELSE IF purpose \notin validTypes
    THEN [challenges |-> chs, error |-> "Invalid OTP type",
          issued |-> FALSE, sendEmailCalls |-> 0, mail |-> NoMail]
    ELSE IF condition = "limited"
    THEN [challenges |-> chs, error |-> "Rate limit exceeded",
          issued |-> FALSE, sendEmailCalls |-> 0, mail |-> NoMail]
    ELSE LET sent == sendVerificationOTP(email, otp, purpose, condition)
         IN [challenges |-> StoreChallenge(chs, email, purpose, otp, t),
             error |-> sent.thrown, issued |-> TRUE,
             sendEmailCalls |-> sent.sendEmailCalls, mail |-> sent.mail]

\* what the caller of requestOTP sees: the acknowledgement and the
\* verification step, or the mapped error and the request step again
RequestOutcome(error) ==
    IF error = Absent
    THEN [ok |-> TRUE, message |-> getSuccessMessage("otp-sent"),
          ui |-> "verify"]
    ELSE [ok |-> FALSE,
          message |-> mapErrorMessage([type |-> "object", message |-> error]),
          ui |-> "request"]

\* the challenge c after one more failed attempt
AfterFailedAttempt(c) ==
    [c EXCEPT !.failed = @ + 1,
              !.status = IF c.failed + 1 >= AllowedAttempts
                         THEN "Exhausted"
                         ELSE @]

\* the framework verifies a code against the challenge of (email, purpose):
\* the error it answers (Absent on success) and the store afterwards
VerifyChallenge(chs, email, purpose, code, t) ==
    LET c == CurrentChallenge(chs, email, purpose)
    IN IF c = NoChallenge
       THEN [challenges |-> chs, error |-> "Invalid OTP"]
       ELSE IF t > c.expiresAt
       THEN [challenges |-> chs, error |-> "OTP expired"]
       ELSE IF c.status = "Exhausted" \/ c.failed >= AllowedAttempts
       THEN [challenges |-> chs, error |-> "Too many OTP attempts"]
       ELSE IF c.status = "Verified"
       THEN [challenges |-> chs, error |-> "Invalid OTP"]
       ELSE IF c.code # code
       THEN [challenges |-> (chs \ {c}) \cup {AfterFailedAttempt(c)},
             error |-> "Invalid OTP"]
       ELSE [challenges |-> (chs \ {c}) \cup {[c EXCEPT !.status = "Verified"]},
             error |-> IF email \in Accounts THEN Absent ELSE "User not found"]

\* verifyOTP(email, code, purpose): the shapes are validated before the
\* framework is consulted
VerifyOTP(chs, email, purpose, code, t) ==
    IF ~isValidEmail(email)
    THEN [challenges |-> chs, error |-> "Invalid email format"]
    ELSE IF ~isValidOTP(code)
    THEN [challenges |-> chs, error |-> "Invalid OTP format"]
    ELSE VerifyChallenge(chs, email, purpose, code, t)

\* what the caller of verifyOTP sees: the session, or the mapped error and
\* the verification step again
VerifyOutcome(error) ==
    IF error = Absent
    THEN [ok |-> TRUE, message |-> getSuccessMessage("signin"),
          ui |-> "signed-in"]
    ELSE [ok |-> FALSE,
          message |-> mapErrorMessage([type |-> "object", message |-> error]),
          ui |-> "verify"]

NoOtpCall ==
    [op |-> "init", email |-> <<>>, purpose |-> "", code |-> <<>>,
     condition |-> "", ok |-> FALSE, error |-> Absent, message |-> "",
     ui |-> "request", sendEmailCalls |-> 0, mail |-> NoMail,
     pre |-> NoChallenge, late |-> FALSE]

\* history: the challenge a verification of (email, purpose) meets, and
\* whether more than ten minutes have passed at time t since it was issued
TargetOf(chs, email, purpose) ==
    IF \E c \in chs : c.email = email /\ c.purpose = purpose
    THEN CHOOSE c \in chs : c.email = email /\ c.purpose = purpose
    ELSE NoChallenge

TenMinutes ==
    10 * 60

PastTenMinutes(c, t) ==
    t * TickSeconds > c.issuedAt * TickSeconds + TenMinutes

(***************************************************************************)
(* Actions of the one-time codes: the requests and verifications of one    *)
(* visitor of the sign-in page, who types their email or a malformed one,  *)
(* and the passing of time.  The history keeps the code and the condition  *)
(* of a request only when the request got as far as using them.            *)
(***************************************************************************)
requestOTP(email, purpose, otp, condition) ==
    LET run == RequestOTP(challenges, email, purpose, otp, condition, clock)
        out == RequestOutcome(run.error)
    IN /\ challenges' = run.challenges
       /\ otpLast' = [NoOtpCall EXCEPT
                        !.op = "request", !.email = email,
                        !.purpose = purpose,
                        !.code = IF run.issued THEN otp ELSE <<>>,
                        !.condition =
                            IF run.issued \/ run.error = "Rate limit exceeded"
                            THEN condition
                            ELSE "",
                        !.ok = out.ok, !.error = run.error,
                        !.message = out.message, !.ui = out.ui,
                        !.sendEmailCalls = run.sendEmailCalls,
                        !.mail = run.mail]
       /\ UNCHANGED <<clock, visitor, rlVars, gateVars, libVars>>

verifyOTP(email, purpose, code) ==
    LET run == VerifyOTP(challenges, email, purpose, code, clock)
        out == VerifyOutcome(run.error)
        c   == TargetOf(challenges, email, purpose)
    IN /\ challenges' = run.challenges
       /\ otpLast' = [NoOtpCall EXCEPT
                        !.op = "verify", !.email = email,
                        !.purpose = purpose, !.code = code,
                        !.ok = out.ok, !.error = run.error,
                        !.message = out.message, !.ui = out.ui,
                        !.pre = c,
                        !.late = (c # NoChallenge /\ PastTenMinutes(c, clock))]
       /\ UNCHANGED <<clock, visitor, rlVars, gateVars, libVars>>

OtpTick ==
    /\ clock < MaxOtpTime
    /\ clock' = clock + 1
    /\ UNCHANGED <<challenges, otpLast, visitor, rlVars, gateVars, libVars>>

OtpInit ==
    /\ clock = 0
    /\ visitor \in Visitors
    /\ challenges = {}
    /\ otpLast = NoOtpCall

OtpNext ==
    \/ \E email \in {visitor, EmailNoAt}, purpose \in RequestPurposes,
          otp \in Codes, condition \in RequestConditions :
            requestOTP(email, purpose, otp, condition)
    \/ \E email \in {visitor, EmailNoAt}, purpose \in VerifyPurposes,
          code \in CodeInputs :
            verifyOTP(email, purpose, code)
    \/ OtpTick

(***************************************************************************)
(* The functions of security.ts and error-messages.ts called on their own: *)
(* each action calls one of them with an argument and keeps the call; a   *)
(* behaviour has one call.                                                 *)
(***************************************************************************)
\* the arguments of mapErrorMessage: a string, an AuthError with or without
\* a message, null and undefined
ErrorArguments ==
    {[type |-> "string", message |-> m] : m \in ErrorMessages}
        \cup {[type |-> "object", message |-> m] :
                m \in ErrorMessages \cup {Absent}}
        \cup {[type |-> "null", message |-> Absent],
              [type |-> "undefined", message |-> Absent]}

\* the arguments of sanitizeHtml: the strings of at most MaxHtmlLen
\* characters among a letter and the five characters it replaces, and two
\* strings that hold an entity already
HtmlInputs ==
    UNION {[1..n -> {"a", "&", "<", ">", "\"", "'"}] : n \in 0..MaxHtmlLen}
        \cup {<<"&", "l", "t", ";">>, <<"&", "a", "m", "p", ";", "<">>}

\* the arguments of validatePassword: short strings of a lowercase letter,
\* an uppercase letter, a digit and a special character, and some named
\* passwords, each as it is and continued with its last character up to
\* the lengths around the two limits
Passwords ==
    LET named ==
            {<<"p", "a", "s", "s", "w", "o", "r", "d">>,
             <<"P", "A", "S", "S", "W", "O", "R", "D">>,
             <<"P", "a", "s", "s", "w", "o", "r", "d", "1", "2", "3">>,
             <<"1", "2", "3", "4", "5", "6">>,
             <<"A", "d", "m", "i", "n">>,
             <<"a", "B", "1", "!">>,
             <<"S", "e", "c", "u", "r", "e", "1", "2", "3", "!">>}
        short ==
            UNION {[1..n -> {"a", "B", "1", "!"}] : n \in 0..MaxPasswordStem}
                \cup named
        ContinuedTo(s, n) ==
            IF s = <<>> \/ Len(s) >= n
            THEN s
            ELSE [i \in 1..n |-> IF i <= Len(s) THEN s[i] ELSE s[Len(s)]]
    IN short \cup {ContinuedTo(s, n) : s \in short,
                                       n \in {7, 8, 9, 127, 128, 129}}

\* the arguments of isValidOTP: the strings of at most otpLength + 1
\* characters among a digit, a letter and a separator, six other digits, and
\* six characters the last of which is a digit outside ASCII
OtpInputs ==
    UNION {[1..n -> {"4", "a", "-"}] : n \in 0..(OtpLength + 1)}
        \cup {<<"0", "1", "2", "3", "8", "9">>,
              <<"1", "2", "3", "4", "5", "²">>}

NoLibCall == [fn |-> "none"]

MapErrorCall(error) ==
    /\ call = NoLibCall
    /\ call' = [fn |-> "mapErrorMessage", error |-> error,
                text |-> mapErrorMessage(error),
                warned |-> MapError(error).warned,
                warning |-> MapError(error).warning]
    /\ UNCHANGED <<rlVars, gateVars, otpVars>>

SanitizeCall(input) ==
    /\ call = NoLibCall
    /\ call' = [fn |-> "sanitizeHtml", input |-> input,
                once |-> sanitizeHtml(input),
                twice |-> sanitizeHtml(sanitizeHtml(input))]
    /\ UNCHANGED <<rlVars, gateVars, otpVars>>

ValidatePasswordCall(password) ==
    /\ call = NoLibCall
    /\ call' = [fn |-> "validatePassword", password |-> password,
                isValid |-> validatePassword(password).isValid,
                errors |-> validatePassword(password).errors]
    /\ UNCHANGED <<rlVars, gateVars, otpVars>>

\* isValidOTP(otp), and the callback of the plugin with this code for a
\* valid email and type and a transport that works
OtpCheckCall(otp) ==
    /\ call = NoLibCall
    /\ call' = [fn |-> "isValidOTP", otp |-> otp,
                valid |-> isValidOTP(otp),
                sent |-> sendVerificationOTP(EmailAmy, otp, "sign-in", "sent")]
    /\ UNCHANGED <<rlVars, gateVars, otpVars>>

LibInit ==
    call = NoLibCall

LibNext ==
    \/ \E error \in ErrorArguments : MapErrorCall(error)
    \/ \E input \in HtmlInputs : SanitizeCall(input)
    \/ \E password \in Passwords : ValidatePasswordCall(password)
    \/ \E otp \in OtpInputs : OtpCheckCall(otp)

GateInit ==
    /\ nodeEnv \in {"production", "development"}
    /\ request = NoRequest
    /\ locals = NoUser
    /\ response = NewResponse(0, NoLocation, Absent)
    /\ nextCalls = 0
    /\ logged = 0
    /\ thrown = Absent
    /\ downstream = [kind |-> "response",
                     response |-> NewResponse(0, NoLocation, Absent)]

RateLimitInit ==
    /\ now = 0
    /\ rateLimitStore = {}
    /\ last = NoCall
    /\ win = [k \in Identifiers |-> NoWindow]
    /\ shadow = {}
    /\ grants \in {NoGrants}
                  \cup {GrantsFor(n, w) : n \in AttemptArgs, w \in WindowArgs}

Init ==
    RateLimitInit /\ GateInit /\ OtpInit /\ LibInit

RateLimitNext ==
    \/ \E identifier \in Identifiers, maxAttempts \in AttemptArgs, windowMs \in WindowArgs :
          checkRateLimit(identifier, maxAttempts, windowMs)
    \/ cleanupRateLimit
    \/ Tick

GateNext ==
    \E pathname \in Pathnames, search \in Searches, result \in SessionResults,
       nextOutcome \in NextOutcomes :
        onRequest(pathname, search, result, nextOutcome)

\* the rate limiter reads neither the process environment nor the visitor's
\* email: one of each is enough
RateLimitStart ==
    Init /\ nodeEnv = "production" /\ visitor = EmailAmy /\ grants = NoGrants

\* the gate does not read the visitor's email of the sign-in page
GateStart ==
    Init /\ visitor = EmailAmy /\ grants = NoGrants

\* the one-time codes do not read the process environment
OtpStart ==
    Init /\ nodeEnv = "production" /\ grants = NoGrants

\* the rate limiter alone
RateLimitSpec ==
    RateLimitStart /\ [][RateLimitNext]_vars

\* the gate alone
GateSpec ==
    GateStart /\ [][GateNext]_vars

\* the one-time codes alone
OtpSpec ==
    OtpStart /\ [][OtpNext]_vars

\* the functions of the libraries read neither the process environment nor
\* the visitor's email
LibStart ==
    Init /\ nodeEnv = "production" /\ visitor = EmailAmy /\ grants = NoGrants

\* the functions of the libraries alone
LibSpec ==
    LibStart /\ [][LibNext]_vars

\* a caller that passes the same maxAttempts and the same windowMs for every
\* key, as the callers of a route do
FixedStart ==
    Init /\ nodeEnv = "production" /\ visitor = EmailAmy /\ grants.on

FixedNext ==
    \/ \E identifier \in Identifiers :
          checkRateLimit(identifier, grants.max, grants.win)
    \/ cleanupRateLimit
    \/ Tick

\* the rate limiter alone, every call with one maxAttempts and one windowMs
FixedSpec ==
    FixedStart /\ [][FixedNext]_vars

\* the rate limiter under its timer: setInterval(cleanupRateLimit, 5 * 60 * 1000)
\* (part_006:141-143) calls cleanupRateLimit again and again for as long as the
\* process runs, so a sweep that would change the store is not put off for ever
SweepSpec ==
    RateLimitStart /\ [][RateLimitNext]_vars /\ WF_vars(cleanupRateLimit)

(***************************************************************************)
(* Properties of the rate limiter.                                         *)
(***************************************************************************)
\* the key's entry is live at time t in store m
LiveIn(m, k, t) == \E e \in EntriesOf(m, k) : t <= e.resetTime

\* C1: in a window opened for a key with no live entry, while every call passes
\* the same maxAttempts N >= 1, a call returns true exactly when it is one of
\* the first N calls of the window; every further call returns false.
C1_FirstNAllowedThenDenied ==
    (last.op = "check" /\ win[last.key].sameMax /\ win[last.key].max >= 1)
        => (last.result <=> win[last.key].calls <= win[last.key].max)

\* C1 witness: with N = 2, the third call of the window has just been denied.
C1_Witness ==
    /\ last.op = "check"
    /\ win[last.key].sameMax
    /\ win[last.key].max = 2
    /\ win[last.key].calls = 3
    /\ win[last.key].allowed = 2
    /\ ~last.result

\* the result of a call as a function of the key's own entry only
OwnEntryDecision ==
    last.op = "check"
        => (last.result <=>
               (~last.had \/ now > last.preReset \/ last.preCount < last.max))

\* a call on one key leaves the entries of every other key as they were
OtherKeysUntouched ==
    \A k \in Identifiers :
        (last'.op = "check" /\ last'.key # k)
            => EntriesOf(rateLimitStore', k) = EntriesOf(rateLimitStore, k)

\* C2: a checkRateLimit call on key k never changes the entry of another key,
\* and its result is decided by k's own entry (with now and maxAttempts),
\* whatever the entries of the other keys.
C2_KeysIndependent ==
    []OwnEntryDecision /\ [][OtherKeysUntouched]_vars

\* C2 witness: a call is allowed while another key is at its limit in a live
\* window.
C2_Witness ==
    /\ last.op = "check"
    /\ last.result
    /\ last.max >= 1
    /\ \E e \in rateLimitStore :
          e.key # last.key /\ e.count >= last.max /\ now <= e.resetTime

\* a denied call leaves the whole table as it was; an allowed call in a live
\* window adds exactly 1 to the key's count
DeniedOrCounted ==
    /\ (last'.op = "check" /\ ~last'.result) => rateLimitStore' = rateLimitStore
    /\ (last'.op = "check" /\ last'.result
            /\ LiveIn(rateLimitStore, last'.key, now))
          => \E e \in EntriesOf(rateLimitStore, last'.key) :
                EntriesOf(rateLimitStore', last'.key)
                    = {[e EXCEPT !.count = e.count + 1]}

\* C3: when checkRateLimit returns false the table is unchanged; when it
\* returns true within a live window the count grows by exactly 1.
C3_DeniedLeavesTable ==
    [][DeniedOrCounted]_vars

\* C3 witness: a call has just been denied on an entry holding count 2.
C3_Witness ==
    /\ last.op = "check"
    /\ ~last.result
    /\ last.had
    /\ last.preCount = 2
    /\ \E e \in rateLimitStore : e.key = last.key /\ e.count = 2

\* C4: the first call made after the reset time R of the key's entry returns
\* true, also when the key was at its limit, and leaves count = 1 with reset
\* time now + windowMs; a call made at now = R belongs to the old window.
C4_ResetAfterWindow ==
    (last.op = "check" /\ last.had)
        => /\ now > last.preReset
               => /\ last.result
                  /\ EntriesOf(rateLimitStore, last.key)
                       = {[key |-> last.key, count |-> 1,
                           resetTime |-> now + last.win]}
           /\ now = last.preReset
               => /\ last.result <=> last.preCount < last.max
                  /\ EntriesOf(rateLimitStore, last.key)
                       = {[key |-> last.key,
                           count |-> last.preCount + (IF last.result THEN 1 ELSE 0),
                           resetTime |-> last.preReset]}

\* C4 witness: a key that was at its limit is allowed again after its reset
\* time.
C4_Witness ==
    /\ last.op = "check"
    /\ last.had
    /\ last.max >= 1
    /\ last.preCount >= last.max
    /\ now > last.preReset
    /\ last.result

\* C5 as stated: in one window of a key, with the same maxAttempts N in every
\* call, at most N calls return true, and no two allowed calls observed the
\* same count.
C5_AtMostNAllowed ==
    \A k \in Identifiers :
        win[k].sameMax
            => /\ win[k].allowed <= win[k].max
               /\ Cardinality(win[k].slots) = win[k].allowed

\* C5 amended: the same for N >= 1 (the call that opens a window returns true
\* whatever N is).
C5_AtMostNAllowedPositive ==
    \A k \in Identifiers :
        (win[k].sameMax /\ win[k].max >= 1)
            => /\ win[k].allowed <= win[k].max
               /\ Cardinality(win[k].slots) = win[k].allowed

\* C5 witness: N = 2 calls were allowed in one window and a further call, made
\* on the same key with the same N, was denied.
C5_Witness ==
    \E k \in Identifiers :
        /\ win[k].sameMax
        /\ win[k].max = 2
        /\ win[k].allowed = 2
        /\ win[k].calls = 3
        /\ win[k].slots = {0, 1}

\* every stored entry has a count >= 1 together with a reset time
EntriesWellFormed ==
    \A e \in rateLimitStore :
        /\ DOMAIN e = {"key", "count", "resetTime"}
        /\ e.key \in Identifiers
        /\ e.count \in Nat /\ e.count >= 1
        /\ e.resetTime \in Nat

\* cleanup removes expired entries only and keeps the others as they are
CleanupOnlyDeletesExpired ==
    last'.op = "cleanup"
        => /\ rateLimitStore' \subseteq rateLimitStore
           /\ \A e \in rateLimitStore \ rateLimitStore' : now > e.resetTime

\* C6: cleanupRateLimit deletes only entries whose window has expired and
\* keeps every other entry unchanged; in every interleaving of checkRateLimit
\* and cleanupRateLimit each stored entry has count >= 1 and a reset time.
C6_CleanupSafe ==
    []EntriesWellFormed /\ [][CleanupOnlyDeletesExpired]_vars

\* C6 witness: a cleanup has removed an entry and kept a live one.
C6_Witness ==
    /\ last.op = "cleanup"
    /\ last.removed >= 1
    /\ \E e \in rateLimitStore : now <= e.resetTime /\ e.count >= 2

\* at most one entry per key
OneEntryPerKey ==
    \A k \in Identifiers : Cardinality(EntriesOf(rateLimitStore, k)) <= 1

\* while a key keeps its window (same reset time), its count does not decrease
CountMonotoneInWindow ==
    \A e \in rateLimitStore, f \in rateLimitStore' :
        (e.key = f.key /\ e.resetTime = f.resetTime) => f.count >= e.count

\* C7: there is at most one entry per key, and between two window resets of a
\* key its count never decreases.
C7_OneEntryMonotoneCount ==
    []OneEntryPerKey /\ [][CountMonotoneInWindow]_vars

\* C7 witness: a window reset has replaced an entry of count 2 by a single
\* entry of count 1.
C7_Witness ==
    /\ last.op = "check"
    /\ last.had
    /\ last.preCount = 2
    /\ now > last.preReset
    /\ EntriesOf(rateLimitStore, last.key)
         = {[key |-> last.key, count |-> 1, resetTime |-> now + last.win]}

(***************************************************************************)
(* Properties of the request gate.                                         *)
(***************************************************************************)
\* the pathname starts with the prefix
Under(pathname, prefix) ==
    \E n \in 0..Len(pathname) : SubSeq(pathname, 1, n) = prefix

\* the character a percent escape stands for
Unescape(a, b) ==
    CASE <<a, b>> = <<"2", "F">> -> "/"
      [] <<a, b>> = <<"2", "5">> -> "%"
      [] <<a, b>> = <<"3", "F">> -> "?"
      [] <<a, b>> = <<"3", "D">> -> "="
      [] <<a, b>> = <<"2", "6">> -> "&"
      [] <<a, b>> = <<"2", "3">> -> "#"
      [] <<a, b>> = <<"3", "A">> -> ":"
      [] <<a, b>> = <<"2", "B">> -> "+"
      [] <<a, b>> = <<"2", "0">> -> " "
      [] OTHER -> "(invalid)"

\* decodeURIComponent: the value a query parameter carries
RECURSIVE decodeURIComponent(_)
decodeURIComponent(s) ==
    IF s = <<>>
    THEN <<>>
    ELSE IF Head(s) = "%" /\ Len(s) >= 3
    THEN <<Unescape(s[2], s[3])>> \o decodeURIComponent(SubSeq(s, 4, Len(s)))
    ELSE <<Head(s)>> \o decodeURIComponent(Tail(s))

\* a query-parameter value in URL-encoded form: no character that delimits a
\* URL component
UrlEncoded(s) ==
    \A i \in 1..Len(s) :
        s[i] \notin {"/", "?", "=", "&", "#", ":", "+", " "}

\* the response is a 302 without body to /connexion?redirect=<value>, the
\* value being the URL-encoded pathname
IsSignInRedirectFor(resp, pathname) ==
    /\ resp.status = 302
    /\ resp.body = ""
    /\ Len(resp.location) >= 20
    /\ SubSeq(resp.location, 1, 10) = <<"/", "c", "o", "n", "n", "e", "x", "i", "o", "n">>
    /\ SubSeq(resp.location, 11, 20) = <<"?", "r", "e", "d", "i", "r", "e", "c", "t", "=">>
    /\ LET value == SubSeq(resp.location, 21, Len(resp.location))
       IN /\ UrlEncoded(value)
          /\ decodeURIComponent(value) = pathname

Handled == request # NoRequest

\* C8: a request under an admin prefix for which the session lookup yields no
\* user is answered 302 to /connexion with redirect=<URL-encoded pathname>
\* (the parameter reads /admin for /admin), and next() is not called.
C8_AdminNoUserRedirect ==
    (/\ Handled
     /\ request.session.kind = "null"
     /\ \E prefix \in {PathAdmin, PathApiAdmin} : Under(request.pathname, prefix))
        => /\ IsSignInRedirectFor(response, request.pathname)
           /\ nextCalls = 0
           /\ request.pathname = PathAdmin
                => response.location =
                     <<"/", "c", "o", "n", "n", "e", "x", "i", "o", "n", "?",
                       "r", "e", "d", "i", "r", "e", "c", "t", "=",
                       "%", "2", "F", "a", "d", "m", "i", "n">>

\* C8 witness: /admin/users requested without a session has been redirected.
C8_Witness ==
    /\ request.pathname = PathAdminUsers
    /\ request.session.kind = "null"
    /\ response.status = 302
    /\ response.location =
         <<"/", "c", "o", "n", "n", "e", "x", "i", "o", "n", "?",
           "r", "e", "d", "i", "r", "e", "c", "t", "=",
           "%", "2", "F", "a", "d", "m", "i", "n", "%", "2", "F",
           "u", "s", "e", "r", "s">>

\* C9: a request under an admin prefix whose user has a role other than
\* "admin" (or no role) is answered 403 with an empty body and next() is not
\* called; next() is called on an admin path only for role "admin".
C9_AdminRoleRequired ==
    (/\ Handled
     /\ \E prefix \in {PathAdmin, PathApiAdmin} : Under(request.pathname, prefix))
        => /\ (request.session.kind = "session" /\ request.session.role # "admin")
                => /\ response.status = 403
                   /\ response.body = ""
                   /\ response.location = NoLocation
                   /\ nextCalls = 0
           /\ nextCalls > 0
                => /\ request.session.kind = "session"
                   /\ request.session.role = "admin"

\* C9 witness: a user without a role has been refused on /api/admin/users.
C9_Witness ==
    /\ request.pathname = PathApiAdminUsers
    /\ request.session.kind = "session"
    /\ request.session.role = "(none)"
    /\ response.status = 403
    /\ nextCalls = 0

\* C10: a request under a private prefix (/dashboard, /profil, /account,
\* /organisations, /settings) for which the session lookup yields no user is
\* answered 302 to the sign-in path with the pathname in the redirect
\* parameter, and next() is not called.
C10_PrivateNoUserRedirect ==
    (/\ Handled
     /\ request.session.kind = "null"
     /\ \E prefix \in {PathDashboard, PathProfil, PathAccount,
                       PathOrganisations, PathSettings} :
           Under(request.pathname, prefix))
        => /\ IsSignInRedirectFor(response, request.pathname)
           /\ nextCalls = 0

\* C10 witness: /settings requested without a session has been redirected.
C10_Witness ==
    /\ request.pathname = PathSettings
    /\ request.session.kind = "null"
    /\ response.status = 302
    /\ decodeURIComponent(SubSeq(response.location, 21, Len(response.location)))
         = PathSettings
    /\ nextCalls = 0

\* the prefixes of the three route classes, as the claims name them
AuthPagePrefixes == {PathConnexion, PathInscription, PathMotDePasseOublie}
AdminPrefixes == {PathAdmin, PathApiAdmin}
PrivatePrefixes ==
    {PathDashboard, PathProfil, PathProfile, PathAccount, PathAdmin,
     PathOrganisations, PathSettings, PathApiAdmin, PathApiUser}

UnderAny(pathname, prefixes) ==
    \E prefix \in prefixes : Under(pathname, prefix)

\* C11: a request whose path starts with an auth-page prefix (/connexion,
\* /inscription, /mot-de-passe-oublie) and for which a user is resolved is
\* answered 302 to /dashboard, and next() is not called.
C11_AuthPagePrefixRedirect ==
    (/\ Handled
     /\ request.session.kind = "session"
     /\ UnderAny(request.pathname, AuthPagePrefixes))
        => /\ response.status = 302
           /\ response.location = PathDashboard
           /\ nextCalls = 0

\* the five security headers carry the values of lines 128-145
HasSecurityHeaders(resp) ==
    /\ resp.headers["X-Frame-Options"] = "DENY"
    /\ resp.headers["X-Content-Type-Options"] = "nosniff"
    /\ resp.headers["Referrer-Policy"] = "strict-origin-when-cross-origin"
    /\ resp.headers["X-XSS-Protection"] = "1; mode=block"
    /\ resp.headers["Content-Security-Policy"] \notin {Absent, "", "default-src *"}

\* C12: every response the gate returns (the downstream handler's, the two
\* redirects, the 403 and the 500 of an internal fault) carries
\* X-Frame-Options: DENY, X-Content-Type-Options: nosniff, Referrer-Policy:
\* strict-origin-when-cross-origin, X-XSS-Protection: 1; mode=block and a
\* Content-Security-Policy.
C12_SecurityHeadersOnEveryResponse ==
    Handled => HasSecurityHeaders(response)

\* a fault happened in this run: getSession threw, or next() was called and
\* threw
Faulted ==
    \/ request.session.kind = "throws"
    \/ nextCalls > 0 /\ downstream.kind = "throws"

\* C13: a fault while the session is resolved or while the downstream handler
\* runs is caught: onRequest resolves to a 500 with an empty body, the Error
\* does not leave onRequest and its message appears nowhere in the response;
\* the Error is logged once.  No run lets an Error out.
C13_FaultGivesGeneric500 ==
    /\ thrown = Absent
    /\ (Handled /\ Faulted)
          => /\ response.status = 500
             /\ response.body = ""
             /\ response.location = NoLocation
             /\ \A h \in HeaderNames : response.headers[h] # FaultMessage
             /\ logged = 1

\* C13 witness: an administrator's request to /admin/users whose downstream
\* handler threw has been answered 500.
C13_Witness ==
    /\ request.pathname = PathAdminUsers
    /\ request.session.kind = "session"
    /\ request.session.role = "admin"
    /\ nextCalls = 1
    /\ downstream.kind = "throws"
    /\ response.status = 500
    /\ logged = 1

\* the run went on to route classification as for a visitor without a user
ClassifiedAsUnauthenticated ==
    /\ locals = NoUser
    /\ IF UnderAny(request.pathname, AdminPrefixes \cup PrivatePrefixes)
       THEN IsSignInRedirectFor(response, request.pathname) /\ nextCalls = 0
       ELSE nextCalls = 1
    /\ response.status = 500 => (nextCalls = 1 /\ downstream.kind = "throws")

\* C14 as stated: when getSession yields nothing or fails (throws), the
\* request is handled as unauthenticated and classified; it never ends as an
\* error response because of the failed resolution.
C14_FailedResolutionIsUnauthenticated ==
    (Handled /\ request.session.kind \in {"null", "throws"})
        => ClassifiedAsUnauthenticated

\* C14, amended: when getSession resolves to nothing (null), the request is
\* handled as unauthenticated and classified, and a 500 comes only from the
\* downstream handler; when getSession throws, the run ends as the generic
\* 500 without classification.
C14_NullSessionIsUnauthenticated ==
    /\ (Handled /\ request.session.kind = "null") => ClassifiedAsUnauthenticated
    /\ (Handled /\ request.session.kind = "throws")
          => /\ response.status = 500
             /\ nextCalls = 0
             /\ locals = NoUser

\* C14 witness: /about requested without a session has reached next(), whose
\* response came back.
C14_Witness ==
    /\ request.pathname = PathAbout
    /\ request.session.kind = "null"
    /\ locals = NoUser
    /\ nextCalls = 1
    /\ response.status = 200

\* the request is one the gate lets through
Permitted ==
    LET isAdmin   == UnderAny(request.pathname, AdminPrefixes)
        isPrivate == UnderAny(request.pathname, PrivatePrefixes)
        isAuth    == UnderAny(request.pathname, AuthPagePrefixes)
        hasUser   == request.session.kind = "session"
    IN \/ hasUser /\ isPrivate /\ ~isAdmin
       \/ hasUser /\ request.session.role = "admin" /\ isAdmin
       \/ ~isAdmin /\ ~isPrivate /\ ~isAuth
       \/ isAuth /\ ~hasUser

\* C15: when getSession does not throw, the gate lets a permitted request
\* through: next() is called exactly once and, when it returns, its response
\* (status, body, Location, Content-Type) is the one returned, for (a) a
\* resolved user, of any role, on a private path that is not an admin path,
\* (b) a user of role "admin" on an admin path, (c) a path in none of the
\* three classes, or an auth page without a user.
C15_PermittedReachesNext ==
    (Handled /\ request.session.kind # "throws" /\ Permitted)
        => /\ nextCalls = 1
           /\ downstream.kind = "response"
                => /\ response.status = downstream.response.status
                   /\ response.body = downstream.response.body
                   /\ response.location = downstream.response.location
                   /\ response.headers["Content-Type"]
                        = downstream.response.headers["Content-Type"]

\* C15 witness: an administrator's request to /api/admin/users has come back
\* with the downstream handler's 404.
C15_Witness ==
    /\ request.pathname = PathApiAdminUsers
    /\ request.session.kind = "session"
    /\ request.session.role = "admin"
    /\ nextCalls = 1
    /\ response.status = 404
    /\ response.body = "not found"

(***************************************************************************)
(* Properties of the one-time codes.                                       *)
(***************************************************************************)
\* what the caller of a request sees
CallerView(l) ==
    [ok |-> l.ok, message |-> l.message, ui |-> l.ui]

FailedVerification(l) ==
    /\ l.op = "verify"
    /\ l.email \in Visitors
    /\ l.code \in Codes
    /\ ~l.ok

\* C17: a failed verifyOTP shows the same message whatever its cause (wrong
\* code, expired code, exhausted attempts, unknown email): a failed
\* verification shows the message the failed verification before it showed.
C17_VerifyFailuresAlike ==
    [][(FailedVerification(otpLast) /\ FailedVerification(otpLast'))
          => otpLast'.message = otpLast.message]_vars

\* C18: once three failed attempts have accumulated for a challenge, every
\* later verification of it fails, the one with the correct code included,
\* even if the code has not expired; the third failed attempt leaves the
\* count at three, and the count of failed attempts stays within 0..3 (the
\* remaining attempts within 0..3).
C18_ThirdFailureInvalidates ==
    /\ \A c \in challenges : c.failed \in 0..3 /\ 3 - c.failed \in 0..3
    /\ (otpLast.op = "verify" /\ otpLast.pre # NoChallenge
            /\ otpLast.pre.failed >= 3)
          => ~otpLast.ok
    /\ (/\ otpLast.op = "verify"
        /\ otpLast.email \in Visitors
        /\ otpLast.code \in Codes
        /\ otpLast.pre # NoChallenge
        /\ otpLast.pre.status = "Issued"
        /\ ~otpLast.late
        /\ otpLast.pre.failed = 2
        /\ otpLast.code # otpLast.pre.code)
          => \E c \in challenges :
                /\ c.email = otpLast.email
                /\ c.purpose = otpLast.purpose
                /\ c.failed = 3

\* C18 witness: the correct code has been refused for a challenge with three
\* failed attempts that is still within its ten minutes.
C18_Witness ==
    /\ otpLast.op = "verify"
    /\ otpLast.pre # NoChallenge
    /\ otpLast.pre.failed = 3
    /\ otpLast.code = otpLast.pre.code
    /\ ~otpLast.late
    /\ ~otpLast.ok

\* C19: a verification made more than ten minutes after the code was issued
\* fails, even with the correct code and attempts remaining, and a
\* verification succeeds only with the code issued for the same email and
\* the same purpose.
C19_ExpiresAndSinglePurpose ==
    /\ (otpLast.op = "verify" /\ otpLast.late) => ~otpLast.ok
    /\ (otpLast.op = "verify" /\ otpLast.ok)
          => /\ otpLast.pre.email = otpLast.email
             /\ otpLast.pre.purpose = otpLast.purpose
             /\ otpLast.pre.code = otpLast.code
    /\ \A c \in challenges :
          c.expiresAt * TickSeconds = c.issuedAt * TickSeconds + TenMinutes

\* C19 witness: the correct code has been refused more than ten minutes after
\* its issue, no attempt having failed.
C19_Witness ==
    /\ otpLast.op = "verify"
    /\ otpLast.pre # NoChallenge
    /\ otpLast.pre.status = "Issued"
    /\ otpLast.pre.failed = 0
    /\ otpLast.code = otpLast.pre.code
    /\ otpLast.late
    /\ ~otpLast.ok

\* the state of a challenge at time t
ChallengeState(c, t) ==
    IF c.status = "Issued" /\ PastTenMinutes(c, t) THEN "Expired" ELSE c.status

\* the step issues a challenge for c's email and purpose
Reissued(c) ==
    /\ otpLast'.op = "request"
    /\ otpLast'.email = c.email
    /\ otpLast'.purpose = c.purpose
    /\ challenges' # challenges

\* a challenge moves from Issued only, to Verified, Expired or Exhausted, or
\* it is superseded by the challenge that replaces it; from its other states
\* it does not move
ChallengeMoves ==
    \A c \in challenges :
        IF Reissued(c)
        THEN \E n \in challenges' :
                /\ n.email = c.email
                /\ n.purpose = c.purpose
                /\ n.status = "Issued"
                /\ n.superseded # <<>> <=> ChallengeState(c, clock) = "Issued"
        ELSE \E n \in challenges' :
                /\ n.email = c.email
                /\ n.purpose = c.purpose
                /\ ChallengeState(n, clock') \in
                      {"Issued", "Verified", "Expired", "Exhausted"}
                /\ ChallengeState(c, clock) # "Issued"
                      => ChallengeState(n, clock') = ChallengeState(c, clock)

\* each (email, purpose) has at most one challenge in the store, in one of
\* the states
ChallengeStates ==
    /\ \A c \in challenges :
          ChallengeState(c, clock) \in {"Issued", "Verified", "Expired", "Exhausted"}
    /\ \A c1 \in challenges, c2 \in challenges :
          (c1.email = c2.email /\ c1.purpose = c2.purpose) => c1 = c2

\* a Verified challenge is not verified again
VerifiedOnce ==
    (otpLast.op = "verify" /\ otpLast.pre.status = "Verified") => ~otpLast.ok

\* a verification with a well-formed email and code against a challenge that
\* is Expired or Exhausted, or with the code of the challenge superseded
AgainstTerminal(l) ==
    /\ l.op = "verify"
    /\ l.email \in Visitors
    /\ l.code \in Codes
    /\ l.pre # NoChallenge
    /\ \/ l.late
       \/ l.pre.status = "Exhausted"
       \/ l.pre.superseded = l.code /\ l.pre.code # l.code

\* verifications against Expired, Exhausted and Superseded challenges fail
\* with one and the same message
TerminalAlike ==
    /\ AgainstTerminal(otpLast') => ~otpLast'.ok
    /\ (AgainstTerminal(otpLast) /\ AgainstTerminal(otpLast'))
          => otpLast'.message = otpLast.message

\* the state machine of a challenge without the messages: the part of C20
\* that does not depend on the error mapper
ChallengeLifeCycle ==
    /\ [](ChallengeStates /\ VerifiedOnce)
    /\ [][ChallengeMoves]_vars

\* C20: a challenge starts Issued and moves at most once, to Verified,
\* Expired, Exhausted or Superseded (by a new code for the same email and
\* purpose); these states are not left; a verification against an Expired,
\* Exhausted or Superseded challenge always gets the same response, and a
\* Verified challenge is never verified again.
C20_ChallengeStateMachine ==
    /\ [](ChallengeStates /\ VerifiedOnce)
    /\ [][ChallengeMoves /\ TerminalAlike]_vars

(***************************************************************************)
(* Properties of the requests of one-time codes.  The shape of an email    *)
(* and the known purposes are written here without the validators of the   *)
(* code.                                                                   *)
(***************************************************************************)
\* something before one "@" and something after it
WellShaped(email) ==
    /\ Cardinality({i \in 1..Len(email) : email[i] = "@"}) = 1
    /\ Len(email) >= 3
    /\ email[1] # "@"
    /\ email[Len(email)] # "@"

KnownPurposes == {"sign-in", "email-verification", "forget-password"}

\* the last call is a request the validation must reject
MustBeRejected(l) ==
    /\ l.op = "request"
    /\ ~(WellShaped(l.email) /\ l.purpose \in KnownPurposes)

\* no challenge of the store has a malformed email or an unknown purpose
OnlyValidChallenges ==
    \A c \in challenges :
        WellShaped(c.email) /\ c.purpose \in KnownPurposes

\* a request that must be rejected fails, leaves the store as it was, calls
\* sendEmail not once and hands over no mail
RejectedBeforeAnything ==
    MustBeRejected(otpLast')
        => /\ ~otpLast'.ok
           /\ challenges' = challenges
           /\ otpLast'.sendEmailCalls = 0
           /\ otpLast'.mail = NoMail
           /\ otpLast'.code = <<>>

GenericFailure == "Une erreur est survenue. Veuillez réessayer."

\* the last call is a request whose mail transport failed
TransportFailed(l) ==
    /\ l.op = "request"
    /\ l.condition \in {"failed", "throws"}

\* C22: any failure of the mail transport during a request, whether
\* sendEmail throws or reports the failure, ends the request in the one
\* generic failure ("Impossible d'envoyer le code de vérification", shown
\* as the generic fallback of mapErrorMessage), never in a success.
C22_TransportFailureIsGenericFailure ==
    TransportFailed(otpLast)
        => /\ ~otpLast.ok
           /\ otpLast.error = "Impossible d'envoyer le code de vérification"
           /\ otpLast.message = GenericFailure
           /\ otpLast.ui = "request"

\* the part of C22 that holds: a sendEmail that throws ends the request in
\* the generic failure
ThrowingTransportIsGenericFailure ==
    (otpLast.op = "request" /\ otpLast.condition = "throws")
        => /\ ~otpLast.ok
           /\ otpLast.error = "Impossible d'envoyer le code de vérification"
           /\ otpLast.message = GenericFailure

\* C23: a request never retries: the mail transport is invoked at most once
\* within one request, and after a failure the request ends with the generic
\* failure without another send attempt.
C23_NoRetry ==
    /\ otpLast.sendEmailCalls <= 1
    /\ TransportFailed(otpLast)
          => /\ otpLast.sendEmailCalls = 1
             /\ ~otpLast.ok
             /\ otpLast.message = GenericFailure

\* the part of C23 that holds: sendEmail is called at most once in a request,
\* exactly once when the transport is reached, whatever its outcome
AtMostOneSend ==
    /\ otpLast.sendEmailCalls <= 1
    /\ (otpLast.op = "request" /\ otpLast.condition \in TransportOutcomes)
          => otpLast.sendEmailCalls = 1

(***************************************************************************)
(* Properties of the error mapper.  The texts it may show, the keys of its *)
(* table and its keywords are listed here again, and a part of a string is *)
(* looked for without the operators of the mapper.                         *)
(***************************************************************************)
\* the texts written for the user
StaticTexts ==
    {"Une erreur inconnue est survenue.", "Email ou mot de passe incorrect.",
     "Veuillez vérifier votre adresse email avant de vous connecter.",
     "Ce compte est banni.", "Utilisateur introuvable.",
     "Cet email est déjà utilisé. Connectez-vous ou vérifiez vos emails.",
     "Ce nom d'utilisateur est déjà pris. Choisissez-en un autre.",
     "Mot de passe trop court (minimum 8 caractères).",
     "Adresse email invalide.", "Un champ requis est manquant.",
     "Code de vérification invalide.",
     "Code de vérification expiré. Demandez un nouveau code.",
     "Trop de tentatives. Veuillez patienter avant de réessayer.",
     "Impossible de renvoyer l'email : cette adresse est déjà vérifiée ou n'existe pas.",
     "Le lien de réinitialisation a expiré. Demandez un nouveau lien.",
     "Lien de réinitialisation invalide.",
     "Trop de tentatives. Veuillez patienter quelques minutes.",
     "Erreur de connexion. Vérifiez votre connexion internet.",
     "Erreur serveur temporaire. Veuillez réessayer dans quelques instants.",
     "Organisation introuvable.", "Cette organisation existe déjà.",
     "Invitation invalide ou expirée.",
     "Vous êtes déjà membre de cette organisation.",
     "Une erreur est survenue. Veuillez réessayer."}

\* the characters of these texts
CharsOf(text) ==
    CASE text = "Une erreur inconnue est survenue." ->
            <<"U", "n", "e", " ", "e", "r", "r", "e", "u", "r", " ", "i",
              "n", "c", "o", "n", "n", "u", "e", " ", "e", "s", "t", " ",
              "s", "u", "r", "v", "e", "n", "u", "e", ".">>
      [] text = "Email ou mot de passe incorrect." ->
            <<"E", "m", "a", "i", "l", " ", "o", "u", " ", "m", "o", "t",
              " ", "d", "e", " ", "p", "a", "s", "s", "e", " ", "i", "n",
              "c", "o", "r", "r", "e", "c", "t", ".">>
      [] text = "Veuillez vérifier votre adresse email avant de vous connecter." ->
            <<"V", "e", "u", "i", "l", "l", "e", "z", " ", "v", "é", "r",
              "i", "f", "i", "e", "r", " ", "v", "o", "t", "r", "e", " ",
              "a", "d", "r", "e", "s", "s", "e", " ", "e", "m", "a", "i",
              "l", " ", "a", "v", "a", "n", "t", " ", "d", "e", " ", "v",
              "o", "u", "s", " ", "c", "o", "n", "n", "e", "c", "t", "e",
              "r", ".">>
      [] text = "Ce compte est banni." ->
            <<"C", "e", " ", "c", "o", "m", "p", "t", "e", " ", "e", "s",
              "t", " ", "b", "a", "n", "n", "i", ".">>
      [] text = "Utilisateur introuvable." ->
            <<"U", "t", "i", "l", "i", "s", "a", "t", "e", "u", "r", " ",
              "i", "n", "t", "r", "o", "u", "v", "a", "b", "l", "e", ".">>
      [] text = "Cet email est déjà utilisé. Connectez-vous ou vérifiez vos emails." ->
            <<"C", "e", "t", " ", "e", "m", "a", "i", "l", " ", "e", "s",
              "t", " ", "d", "é", "j", "à", " ", "u", "t", "i", "l", "i",
              "s", "é", ".", " ", "C", "o", "n", "n", "e", "c", "t", "e",
              "z", "-", "v", "o", "u", "s", " ", "o", "u", " ", "v", "é",
              "r", "i", "f", "i", "e", "z", " ", "v", "o", "s", " ", "e",
              "m", "a", "i", "l", "s", ".">>
      [] text = "Ce nom d'utilisateur est déjà pris. Choisissez-en un autre." ->
            <<"C", "e", " ", "n", "o", "m", " ", "d", "'", "u", "t", "i",
              "l", "i", "s", "a", "t", "e", "u", "r", " ", "e", "s", "t",
              " ", "d", "é", "j", "à", " ", "p", "r", "i", "s", ".", " ",
              "C", "h", "o", "i", "s", "i", "s", "s", "e", "z", "-", "e",
              "n", " ", "u", "n", " ", "a", "u", "t", "r", "e", ".">>
      [] text = "Mot de passe trop court (minimum 8 caractères)." ->
            <<"M", "o", "t", " ", "d", "e", " ", "p", "a", "s", "s", "e",
              " ", "t", "r", "o", "p", " ", "c", "o", "u", "r", "t", " ",
              "(", "m", "i", "n", "i", "m", "u", "m", " ", "8", " ", "c",
              "a", "r", "a", "c", "t", "è", "r", "e", "s", ")", ".">>
      [] text = "Adresse email invalide." ->
            <<"A", "d", "r", "e", "s", "s", "e", " ", "e", "m", "a", "i",
              "l", " ", "i", "n", "v", "a", "l", "i", "d", "e", ".">>
      [] text = "Un champ requis est manquant." ->
            <<"U", "n", " ", "c", "h", "a", "m", "p", " ", "r", "e", "q",
              "u", "i", "s", " ", "e", "s", "t", " ", "m", "a", "n", "q",
              "u", "a", "n", "t", ".">>
      [] text = "Code de vérification invalide." ->
            <<"C", "o", "d", "e", " ", "d", "e", " ", "v", "é", "r", "i",
              "f", "i", "c", "a", "t", "i", "o", "n", " ", "i", "n", "v",
              "a", "l", "i", "d", "e", ".">>
      [] text = "Code de vérification expiré. Demandez un nouveau code." ->
            <<"C", "o", "d", "e", " ", "d", "e", " ", "v", "é", "r", "i",
              "f", "i", "c", "a", "t", "i", "o", "n", " ", "e", "x", "p",
              "i", "r", "é", ".", " ", "D", "e", "m", "a", "n", "d", "e",
              "z", " ", "u", "n", " ", "n", "o", "u", "v", "e", "a", "u",
              " ", "c", "o", "d", "e", ".">>
      [] text = "Trop de tentatives. Veuillez patienter avant de réessayer." ->
            <<"T", "r", "o", "p", " ", "d", "e", " ", "t", "e", "n", "t",
              "a", "t", "i", "v", "e", "s", ".", " ", "V", "e", "u", "i",
              "l", "l", "e", "z", " ", "p", "a", "t", "i", "e", "n", "t",
              "e", "r", " ", "a", "v", "a", "n", "t", " ", "d", "e", " ",
              "r", "é", "e", "s", "s", "a", "y", "e", "r", ".">>
      [] text = "Impossible de renvoyer l'email : cette adresse est déjà vérifiée ou n'existe pas." ->
            <<"I", "m", "p", "o", "s", "s", "i", "b", "l", "e", " ", "d",
              "e", " ", "r", "e", "n", "v", "o", "y", "e", "r", " ", "l",
              "'", "e", "m", "a", "i", "l", " ", ":", " ", "c", "e", "t",
              "t", "e", " ", "a", "d", "r", "e", "s", "s", "e", " ", "e",
              "s", "t", " ", "d", "é", "j", "à", " ", "v", "é", "r", "i",
              "f", "i", "é", "e", " ", "o", "u", " ", "n", "'", "e", "x",
              "i", "s", "t", "e", " ", "p", "a", "s", ".">>
      [] text = "Le lien de réinitialisation a expiré. Demandez un nouveau lien." ->
            <<"L", "e", " ", "l", "i", "e", "n", " ", "d", "e", " ", "r",
              "é", "i", "n", "i", "t", "i", "a", "l", "i", "s", "a", "t",
              "i", "o", "n", " ", "a", " ", "e", "x", "p", "i", "r", "é",
              ".", " ", "D", "e", "m", "a", "n", "d", "e", "z", " ", "u",
              "n", " ", "n", "o", "u", "v", "e", "a", "u", " ", "l", "i",
              "e", "n", ".">>
      [] text = "Lien de réinitialisation invalide." ->
            <<"L", "i", "e", "n", " ", "d", "e", " ", "r", "é", "i", "n",
              "i", "t", "i", "a", "l", "i", "s", "a", "t", "i", "o", "n",
              " ", "i", "n", "v", "a", "l", "i", "d", "e", ".">>
      [] text = "Trop de tentatives. Veuillez patienter quelques minutes." ->
            <<"T", "r", "o", "p", " ", "d", "e", " ", "t", "e", "n", "t",
              "a", "t", "i", "v", "e", "s", ".", " ", "V", "e", "u", "i",
              "l", "l", "e", "z", " ", "p", "a", "t", "i", "e", "n", "t",
              "e", "r", " ", "q", "u", "e", "l", "q", "u", "e", "s", " ",
              "m", "i", "n", "u", "t", "e", "s", ".">>
      [] text = "Erreur de connexion. Vérifiez votre connexion internet." ->
            <<"E", "r", "r", "e", "u", "r", " ", "d", "e", " ", "c", "o",
              "n", "n", "e", "x", "i", "o", "n", ".", " ", "V", "é", "r",
              "i", "f", "i", "e", "z", " ", "v", "o", "t", "r", "e", " ",
              "c", "o", "n", "n", "e", "x", "i", "o", "n", " ", "i", "n",
              "t", "e", "r", "n", "e", "t", ".">>
      [] text = "Erreur serveur temporaire. Veuillez réessayer dans quelques instants." ->
            <<"E", "r", "r", "e", "u", "r", " ", "s", "e", "r", "v", "e",
              "u", "r", " ", "t", "e", "m", "p", "o", "r", "a", "i", "r",
              "e", ".", " ", "V", "e", "u", "i", "l", "l", "e", "z", " ",
              "r", "é", "e", "s", "s", "a", "y", "e", "r", " ", "d", "a",
              "n", "s", " ", "q", "u", "e", "l", "q", "u", "e", "s", " ",
              "i", "n", "s", "t", "a", "n", "t", "s", ".">>
      [] text = "Organisation introuvable." ->
            <<"O", "r", "g", "a", "n", "i", "s", "a", "t", "i", "o", "n",
              " ", "i", "n", "t", "r", "o", "u", "v", "a", "b", "l", "e",
              ".">>
      [] text = "Cette organisation existe déjà." ->
            <<"C", "e", "t", "t", "e", " ", "o", "r", "g", "a", "n", "i",
              "s", "a", "t", "i", "o", "n", " ", "e", "x", "i", "s", "t",
              "e", " ", "d", "é", "j", "à", ".">>
      [] text = "Invitation invalide ou expirée." ->
            <<"I", "n", "v", "i", "t", "a", "t", "i", "o", "n", " ", "i",
              "n", "v", "a", "l", "i", "d", "e", " ", "o", "u", " ", "e",
              "x", "p", "i", "r", "é", "e", ".">>
      [] text = "Vous êtes déjà membre de cette organisation." ->
            <<"V", "o", "u", "s", " ", "ê", "t", "e", "s", " ", "d", "é",
              "j", "à", " ", "m", "e", "m", "b", "r", "e", " ", "d", "e",
              " ", "c", "e", "t", "t", "e", " ", "o", "r", "g", "a", "n",
              "i", "s", "a", "t", "i", "o", "n", ".">>
      [] text = "Une erreur est survenue. Veuillez réessayer." ->
            <<"U", "n", "e", " ", "e", "r", "r", "e", "u", "r", " ", "e",
              "s", "t", " ", "s", "u", "r", "v", "e", "n", "u", "e", ".",
              " ", "V", "e", "u", "i", "l", "l", "e", "z", " ", "r", "é",
              "e", "s", "s", "a", "y", "e", "r", ".">>
      [] OTHER -> <<>>

\* part occurs in text
Holds(text, part) ==
    \E from \in 1..(Len(text) - Len(part) + 1) :
        \A i \in 1..Len(part) : text[from + i - 1] = part[i]

\* the last call is a call of mapErrorMessage
Mapped ==
    call.fn = "mapErrorMessage"

TableKeys ==
    {"Invalid email or password", "Invalid credentials", "Email not verified",
     "Account banned", "User not found", "Email already exists",
     "Sign-up attempt for existing email", "Username already exists",
     "Password too short", "Invalid email", "Missing required field",
     "Invalid OTP", "Invalid verification code", "OTP expired",
     "Verification code expired", "Too many OTP attempts",
     "You can only send a verification email to an unverified email",
     "Password reset token expired", "Invalid password reset token",
     "Organization not found", "Organization already exists",
     "Invalid invitation", "User already in organization"}

Keywords ==
    {<<"r", "a", "t", "e", " ", "l", "i", "m", "i", "t">>,
     <<"t", "o", "o", " ", "m", "a", "n", "y", " ", "r", "e", "q", "u", "e",
       "s", "t", "s">>,
     <<"n", "e", "t", "w", "o", "r", "k">>, <<"f", "e", "t", "c", "h">>,
     <<"s", "e", "r", "v", "e", "r">>, <<"5", "0", "0">>}

\* a message that is there, is no key of the table and holds no keyword
Unmatched(message) ==
    /\ message \notin {Absent, ""}
    /\ message \notin TableKeys
    /\ \A k \in Keywords : ~Holds(TextOf(message), k)

\* C25: for every non-empty message that is no key of the table and holds
\* no keyword, mapErrorMessage returns the generic fallback and logs once,
\* with the raw message; for every other message it does not log.  (It
\* returns a text for every argument: it does not throw.)
C25_FallbackLogsOnce ==
    Mapped
        => IF Unmatched(call.error.message)
           THEN /\ call.text = GenericFailure
                /\ call.warned = 1
                /\ call.warning = call.error.message
           ELSE /\ call.warned = 0
                /\ call.warning = Absent
                /\ call.text \in StaticTexts \ {GenericFailure}

\* an unknown message has been mapped and logged
C25_Witness ==
    /\ Mapped
    /\ call.error.message = "Some unknown error message"
    /\ call.text = GenericFailure
    /\ call.warned = 1

\* C26: for null, undefined and an error object without message,
\* mapErrorMessage returns "Une erreur inconnue est survenue.", which is not
\* the generic fallback.
C26_UnknownErrorText ==
    (Mapped /\ call.error.message = Absent)
        => /\ call.text = "Une erreur inconnue est survenue."
           /\ call.text # GenericFailure
           /\ call.warned = 0

\* null, undefined or an object without message has been mapped
C26_Witness ==
    /\ Mapped
    /\ call.error.type \in {"null", "undefined", "object"}
    /\ call.error.message = Absent
    /\ call.text = "Une erreur inconnue est survenue."

(***************************************************************************)
(* Properties of the validators and of the sanitizer.                      *)
(***************************************************************************)
\* the entity of a character, the character itself if it has none
EntityOf(c) ==
    CASE c = "&" -> <<"&", "a", "m", "p", ";">>
      [] c = "<" -> <<"&", "l", "t", ";">>
      [] c = ">" -> <<"&", "g", "t", ";">>
      [] c = "\"" -> <<"&", "q", "u", "o", "t", ";">>
      [] c = "'" -> <<"&", "#", "0", "3", "9", ";">>
      [] OTHER -> <<c>>

\* every character of s written as its entity, in one pass
RECURSIVE Escaped(_)
Escaped(s) ==
    IF s = <<>> THEN <<>> ELSE EntityOf(Head(s)) \o Escaped(Tail(s))

EntityNames ==
    {<<"a", "m", "p", ";">>, <<"l", "t", ";">>, <<"g", "t", ";">>,
     <<"q", "u", "o", "t", ";">>, <<"#", "0", "3", "9", ";">>}

\* the text after position i of s starts with name
Follows(s, i, name) ==
    /\ i + Len(name) <= Len(s)
    /\ \A k \in 1..Len(name) : s[i + k] = name[k]

\* s holds none of < > " ' and every & of s starts an entity
Harmless(s) ==
    \A i \in 1..Len(s) :
        /\ s[i] \notin {"<", ">", "\"", "'"}
        /\ s[i] = "&" => \E name \in EntityNames : Follows(s, i, name)

\* the number of & in s
Ampersands(s) ==
    Cardinality({i \in 1..Len(s) : s[i] = "&"})

Sanitized ==
    call.fn = "sanitizeHtml"

\* C27: sanitizeHtml(s) holds no literal < > " ' and no unescaped &, being s
\* with each of the five characters written as its entity; the escaping is
\* not idempotent: applied again it writes the & of every entity as &amp;
\* (< gives &lt; and then &amp;lt;).
C27_SanitizeEscapesAll ==
    Sanitized
        => /\ call.once = Escaped(call.input)
           /\ Harmless(call.once)
           /\ call.twice = Escaped(call.once)
           /\ Harmless(call.twice)
           /\ \A i \in 1..Len(call.twice) :
                 call.twice[i] = "&"
                    => Follows(call.twice, i, <<"a", "m", "p", ";">>)
           /\ Ampersands(call.twice) = Ampersands(call.once)
           /\ Ampersands(call.once) > 0 => call.twice # call.once
           /\ call.input = <<"<">>
                 => /\ call.once = <<"&", "l", "t", ";">>
                    /\ call.twice = <<"&", "a", "m", "p", ";", "l", "t", ";">>

\* a string with & and < has been sanitized, and sanitized again with
\* another result
C27_Witness ==
    /\ Sanitized
    /\ call.input = <<"&", "<", "a">>
    /\ call.once = <<"&", "a", "m", "p", ";", "&", "l", "t", ";", "a">>
    /\ call.twice # call.once

\* the rules of a password in the order of the report, and the passwords
\* known to be common
PasswordRules ==
    <<"Le mot de passe doit contenir au moins 8 caractères",
      "Le mot de passe ne peut pas dépasser 128 caractères",
      "Le mot de passe doit contenir au moins une minuscule",
      "Le mot de passe doit contenir au moins une majuscule",
      "Le mot de passe doit contenir au moins un chiffre",
      "Le mot de passe doit contenir au moins un caractère spécial",
      "Ce mot de passe est trop commun">>

\* how many characters of p are of the class
CountOf(p, class) ==
    Cardinality({i \in 1..Len(p) : p[i] \in class})

SmallLetters ==
    {"a", "b", "c", "d", "e", "f", "g", "h", "i", "j", "k", "l", "m", "n",
     "o", "p", "q", "r", "s", "t", "u", "v", "w", "x", "y", "z"}

CapitalLetters ==
    {"A", "B", "C", "D", "E", "F", "G", "H", "I", "J", "K", "L", "M", "N",
     "O", "P", "Q", "R", "S", "T", "U", "V", "W", "X", "Y", "Z"}

Figures ==
    {"0", "1", "2", "3", "4", "5", "6", "7", "8", "9"}

\* the listed symbols
Symbols ==
    {"!", "@", "#", "$", "%", "^", "&", "*", "(", ")", "_", "+", "-", "=",
     "[", "]", "{", "}", ";", "'", ":", "\"", "\\", "|", ",", ".", "<", ">",
     "/", "?"}

\* a is b or the capital of b
SameLetter(a, b) ==
    LET small == <<"a", "d", "e", "i", "m", "n", "o", "p", "q", "r", "s", "t",
                   "w", "y">>
        capital == <<"A", "D", "E", "I", "M", "N", "O", "P", "Q", "R", "S",
                     "T", "W", "Y">>
    IN a = b \/ \E k \in 1..Len(small) : a = capital[k] /\ b = small[k]

\* p is, whatever the case of its letters, one of password, 123456, admin,
\* password123 and qwerty
IsCommon(p) ==
    \E w \in {<<"p", "a", "s", "s", "w", "o", "r", "d">>,
              <<"1", "2", "3", "4", "5", "6">>,
              <<"a", "d", "m", "i", "n">>,
              <<"p", "a", "s", "s", "w", "o", "r", "d", "1", "2", "3">>,
              <<"q", "w", "e", "r", "t", "y">>} :
        /\ Len(w) = Len(p)
        /\ \A i \in 1..Len(p) : SameLetter(p[i], w[i])

\* rule number r is violated by p
Violates(p, r) ==
    CASE r = 1 -> Len(p) < 8
      [] r = 2 -> Len(p) > 128
      [] r = 3 -> CountOf(p, SmallLetters) = 0
      [] r = 4 -> CountOf(p, CapitalLetters) = 0
      [] r = 5 -> CountOf(p, Figures) = 0
      [] r = 6 -> CountOf(p, Symbols) = 0
      [] r = 7 -> IsCommon(p)

\* the report lists exactly the violated rules, in their order
ReportsViolated(p, errors) ==
    /\ \A r \in 1..7 :
          Violates(p, r) <=> \E i \in 1..Len(errors) : errors[i] = PasswordRules[r]
    /\ \A i \in 1..Len(errors) : \E r \in 1..7 : errors[i] = PasswordRules[r]
    /\ \A i, j \in 1..Len(errors) :
          i < j => \E r, s \in 1..7 :
                      /\ r < s
                      /\ errors[i] = PasswordRules[r]
                      /\ errors[j] = PasswordRules[s]

Validated ==
    call.fn = "validatePassword"

\* C28: validatePassword checks every rule on its own and reports all the
\* violated rules together, in the order minimum length 8, maximum length
\* 128, lowercase, uppercase, digit, symbol, common password; the password
\* is valid exactly when no rule is violated; a password shorter than 8 or
\* longer than 128 characters is invalid, with the violation of its length.
C28_AllViolationsReported ==
    Validated
        => /\ ReportsViolated(call.password, call.errors)
           /\ call.isValid <=> \A r \in 1..7 : ~Violates(call.password, r)
           /\ Len(call.password) < 8
                 => ~call.isValid /\ call.errors[1] = PasswordRules[1]
           /\ Len(call.password) > 128
                 => ~call.isValid /\ call.errors[1] = PasswordRules[2]

\* a password of 129 small letters has been reported with four violations
C28_Witness ==
    /\ Validated
    /\ Len(call.password) = 129
    /\ Len(call.errors) = 4
    /\ call.errors[1] = PasswordRules[2]
    /\ ~call.isValid

\* six digits of ASCII
SixDigits(s) ==
    /\ Len(s) = 6
    /\ CountOf(s, Figures) = 6

OtpChecked ==
    call.fn = "isValidOTP"

\* C29: isValidOTP(s) is true exactly when s is six ASCII digits, so false
\* for a shorter, longer, empty, lettered or separated input; a code that
\* fails the test is never put into an outgoing mail.
C29_SixDigitsOnly ==
    OtpChecked
        => /\ call.valid <=> SixDigits(call.otp)
           /\ ~SixDigits(call.otp)
                 => /\ call.sent.sendEmailCalls = 0
                    /\ call.sent.mail = NoMail
                    /\ call.sent.thrown # Absent
           /\ call.sent.sendEmailCalls = 1 => call.sent.mail.otp = call.otp

\* six characters with a letter have been refused and not sent
C29_Witness ==
    /\ OtpChecked
    /\ call.otp = <<"4", "4", "a", "4", "4", "4">>
    /\ ~call.valid
    /\ call.sent.sendEmailCalls = 0

(***************************************************************************)
(* Properties of the Content-Security-Policy the gate sets.                *)
(***************************************************************************)
\* the sources the policy of the gate gives to a directive, none if the
\* policy does not have the directive
SourcesOf(name) ==
    IF \E i \in 1..Len(CspDirectives) : CspDirectives[i].name = name
    THEN LET i == CHOOSE k \in 1..Len(CspDirectives) :
                      CspDirectives[k].name = name
         IN {CspDirectives[i].sources[k] :
                k \in 1..Len(CspDirectives[i].sources)}
    ELSE {}

\* the response carries the policy of the gate
CarriesPolicy ==
    /\ Handled
    /\ response.headers["Content-Security-Policy"]
          = "default-src 'self'; script-src 'self' 'unsafe-inline' 'unsafe-eval'; style-src 'self' 'unsafe-inline'; img-src 'self' data: https:; font-src 'self'; connect-src 'self'; frame-ancestors 'none';"

\* the part of C30 that holds: the policy forbids framing and has self as
\* the only default source
FramingForbidden ==
    (Handled /\ thrown = Absent /\ response.status # 500)
        => /\ CarriesPolicy
           /\ SourcesOf("frame-ancestors") = {"'none'"}
           /\ SourcesOf("default-src") = {"'self'"}

\* C30: the Content-Security-Policy the gate sets forbids framing
\* (frame-ancestors 'none') and restricts the default, script and style
\* sources to self only; in particular script-src does not allow
\* unsafe-eval.
C30_CspSelfOnly ==
    (Handled /\ thrown = Absent /\ response.status # 500)
        => /\ CarriesPolicy
           /\ SourcesOf("frame-ancestors") = {"'none'"}
           /\ SourcesOf("default-src") = {"'self'"}
           /\ SourcesOf("script-src") = {"'self'"}
           /\ SourcesOf("style-src") = {"'self'"}
           /\ "'unsafe-eval'" \notin SourcesOf("script-src")

(***************************************************************************)
(* Properties of the decision of the gate, of its redirects and of the     *)
(* headers it writes over those of the handler.                            *)
(***************************************************************************)
\* the decision of a run of the gate: it continues to next(), or it answers
\* itself, with a status and a Location
DecisionOf(calls, resp) ==
    IF calls > 0
    THEN [kind |-> "continue", status |-> 0, location |-> NoLocation]
    ELSE [kind |-> "answer", status |-> resp.status,
          location |-> resp.location]

\* two results of the session lookup agree on whether a user was resolved
\* and on whether its role is "admin"
SameStanding(a, b) ==
    /\ a.kind # "throws" /\ b.kind # "throws"
    /\ (a.kind = "session") <=> (b.kind = "session")
    /\ (a.kind = "session" /\ a.role = "admin")
          <=> (b.kind = "session" /\ b.role = "admin")

\* C38: the decision of the gate (continue, 302 with its Location, or 403)
\* is a function of the pathname, of whether a user was resolved and of
\* whether the role of the user is "admin" only: a request of the same
\* pathname and standing gets the same decision whatever its query string,
\* the rest of its session, the ban status of the user, the environment and
\* the handler behind the gate.
C38_DecisionOfThreeInputs ==
    (Handled /\ request.session.kind # "throws")
        => \A other \in SessionResults, outcome \in NextOutcomes,
              env \in {"production", "development"} :
                SameStanding(request.session, other)
                    => LET run == Handle(request.pathname, other, outcome, env)
                       IN DecisionOf(run.nextCalls, run.response)
                            = DecisionOf(nextCalls, response)

\* a banned administrator has asked for /admin with a query string and has
\* been let through
C38_Witness ==
    /\ Handled
    /\ request.pathname = <<"/", "a", "d", "m", "i", "n">>
    /\ request.search = "?next=/admin"
    /\ request.session.kind = "session"
    /\ request.session.role = "admin"
    /\ request.session.banned
    /\ nextCalls = 1

\* the gate itself has answered with a redirect
GateRedirects ==
    Handled /\ nextCalls = 0 /\ response.status = 302

\* C39: every redirect the gate issues has the Location "/dashboard" or
\* "/connexion?redirect=" followed by the URL-encoded pathname of the same
\* request: never an absolute or off-site URL, never the query string.
C39_RedirectLocations ==
    GateRedirects
        => /\ \/ response.location
                    = <<"/", "d", "a", "s", "h", "b", "o", "a", "r", "d">>
              \/ IsSignInRedirectFor(response, request.pathname)
           /\ response.location[1] = "/"
           /\ response.location[2] # "/"
           /\ \A i \in 1..Len(response.location) :
                 response.location[i] \notin {":", "\\"}
           /\ \A i \in 21..Len(response.location) :
                 response.location[i] \notin {"/", "?", "&", "=", "#"}

\* a request of an admin path below /admin, with a query string that names
\* another site, has been redirected to the sign-in page
C39_Witness ==
    /\ GateRedirects
    /\ Len(request.pathname) > 6
    /\ Under(request.pathname, <<"/", "a", "d", "m", "i", "n">>)
    /\ request.search = "?redirect=https://evil.example/"
    /\ IsSignInRedirectFor(response, request.pathname)

\* the response has left the gate on the path without fault
WithoutFault ==
    Handled /\ thrown = Absent /\ logged = 0

\* C40: on every response returned without a fault the gate writes the
\* fixed security headers after the handler has produced the response, over
\* any value the handler set for them: the final values are the fixed ones.
C40_FixedHeadersOverwrite ==
    WithoutFault
        => /\ response.headers["X-Frame-Options"] = "DENY"
           /\ response.headers["X-Content-Type-Options"] = "nosniff"
           /\ response.headers["Referrer-Policy"]
                = "strict-origin-when-cross-origin"
           /\ response.headers["X-XSS-Protection"] = "1; mode=block"
           /\ response.headers["Content-Security-Policy"]
                = "default-src 'self'; script-src 'self' 'unsafe-inline' 'unsafe-eval'; style-src 'self' 'unsafe-inline'; img-src 'self' data: https:; font-src 'self'; connect-src 'self'; frame-ancestors 'none';"
           /\ nodeEnv = "production"
                 => response.headers["Strict-Transport-Security"]
                      = "max-age=31536000; includeSubDomains; preload"
           /\ nextCalls = 1
                 => /\ response.status = downstream.response.status
                    /\ response.headers["Content-Type"]
                         = downstream.response.headers["Content-Type"]

\* the handler had set X-Frame-Options and Content-Security-Policy to values
\* of its own, and the response carries the fixed ones
C40_Witness ==
    /\ WithoutFault
    /\ nextCalls = 1
    /\ downstream.kind = "response"
    /\ downstream.response.headers["X-Frame-Options"] = "SAMEORIGIN"
    /\ downstream.response.headers["Content-Security-Policy"] = "default-src *"
    /\ response.headers["X-Frame-Options"] = "DENY"

(***************************************************************************)
(* Further properties of the rate limiter.                                 *)
(***************************************************************************)
\* C33: a call of cleanupRateLimit clears the store: when it returns the
\* store holds no entry, so that no count is carried over to the next
\* caller.
C33_CleanupClearsStore ==
    last.op = "cleanup" => rateLimitStore = {}

\* C34: while every call of a key passes the same maxAttempts N >= 1, every
\* stored entry of the key has 1 <= count <= N, in every reachable state,
\* whatever the calls of checkRateLimit and cleanupRateLimit and the time
\* passed.
C34_CountWithinLimit ==
    \A e \in rateLimitStore :
        (win[e.key].sameMax /\ win[e.key].max >= 1)
            => (1 <= e.count /\ e.count <= win[e.key].max)

\* with N = 2 an entry holds count 2 after a third call of its window
C34_Witness ==
    \E e \in rateLimitStore :
        /\ win[e.key].sameMax
        /\ win[e.key].max = 2
        /\ win[e.key].calls = 3
        /\ e.count = 2

\* every step keeps the reset time of every live entry
ResetTimeKept ==
    \A e \in rateLimitStore :
        now <= e.resetTime
            => \E f \in rateLimitStore' :
                  f.key = e.key /\ f.resetTime = e.resetTime

\* a call in a live window leaves the reset time it found, whatever its
\* windowMs; a call after the reset time is allowed
LockoutNotExtended ==
    (last.op = "check" /\ last.had)
        => /\ now <= last.preReset
                => \A e \in EntriesOf(rateLimitStore, last.key) :
                      e.resetTime = last.preReset
           /\ now > last.preReset => last.result

\* C36: within a live window no call of checkRateLimit, allowed or denied,
\* changes the reset time of the entry; windowMs is used by the call that
\* opens a window only, so that a denied call never extends a lockout and
\* the key is allowed again by the first call after the reset time fixed
\* when the window was opened.
C36_ResetTimeFixedAtOpening ==
    []LockoutNotExtended /\ [][ResetTimeKept]_vars

\* a call has been denied at the reset time of its window with a windowMs
\* that would have reached beyond it, and the reset time is as it was
C36_Witness ==
    /\ last.op = "check"
    /\ ~last.result
    /\ last.max >= 1
    /\ last.had
    /\ last.preReset = now
    /\ last.win >= 1
    /\ \E e \in rateLimitStore : e.key = last.key /\ e.resetTime = now

\* C37: the call that opens a window of a key (no entry, or an expired one)
\* returns true and stores count = 1 whatever maxAttempts is, zero and less
\* included; only a key with a live entry is ever denied.
\* (The calls of the behaviours pass maxAttempts from 0 on; the second part
\* asks the same of a call that any state could make next, with negative
\* maxAttempts too.)
C37_OpeningCallAllowed ==
    /\ last.op = "check"
          => /\ (~last.had \/ now > last.preReset)
                  => /\ last.result
                     /\ EntriesOf(rateLimitStore, last.key)
                          = {[key |-> last.key, count |-> 1,
                              resetTime |-> now + last.win]}
             /\ ~last.result
                  => /\ last.had
                     /\ now <= last.preReset
                     /\ last.preCount >= last.max
    /\ \A k \in Identifiers, n \in (0 - 2)..MaxAttemptsArg, w \in WindowArgs :
          IF LiveIn(rateLimitStore, k, now)
          THEN n <= 0 => ~ResultOfCheck(rateLimitStore, k, n, now)
          ELSE /\ ResultOfCheck(rateLimitStore, k, n, now)
               /\ EntriesOf(StoreAfterCheck(rateLimitStore, k, n, w, now), k)
                    = {[key |-> k, count |-> 1, resetTime |-> now + w]}

\* a call with maxAttempts of zero or less has opened a window, and so has a
\* call on an expired entry
C37_Witness ==
    /\ last.op = "check"
    /\ last.max <= 0
    /\ last.result
    /\ (~last.had \/ now > last.preReset)
    /\ \E e \in rateLimitStore : e.key = last.key /\ e.count = 1

(***************************************************************************)
(* The periodic sweep.                                                     *)
(***************************************************************************)
\* the store holds an entry of the key whose window is over
ExpiredIn(k) == \E e \in EntriesOf(rateLimitStore, k) : now > e.resetTime

\* C32: under the periodic sweep, an entry whose window is over does not stay:
\* whenever the store holds an expired entry of a key, later the store holds
\* no expired entry of that key.  Time never runs backwards, so the expired
\* entry has then been deleted by a sweep, unless the key was checked again and
\* the call replaced it by the entry of a new window.
C32_ExpiredEventuallyRemoved ==
    \A k \in Identifiers : ExpiredIn(k) ~> ~ExpiredIn(k)

\* C32 witness: a sweep has just deleted the two entries, both expired, and no
\* call has replaced them.
C32_Witness ==
    /\ last.op = "cleanup"
    /\ last.removed = Cardinality(Identifiers)
    /\ rateLimitStore = {}

(***************************************************************************)
(* Sweeps and the answers of checkRateLimit.                               *)
(***************************************************************************)
\* C35: the sweeps do not show in the answers.  shadow is the store of the
\* same calls at the same times with no sweep at all; in every reachable state
\* a call of checkRateLimit returns for every key and every limit the boolean
\* it returns on shadow.  (Every call can be made in every state, so this is
\* the equality of the two sequences of booleans, call by call.)
C35_CleanupTransparent ==
    \A k \in Identifiers, n \in AttemptArgs :
        ResultOfCheck(rateLimitStore, k, n, now) = ResultOfCheck(shadow, k, n, now)

\* C35 witness: a sweep has deleted the entry of one key, which the store
\* without sweeps still holds, and a call for the other key has been denied
\* since.
C35_Witness ==
    /\ last.op = "check"
    /\ ~last.result
    /\ \E k \in Identifiers :
          /\ EntriesOf(rateLimitStore, k) = {}
          /\ EntriesOf(shadow, k) # {}

(***************************************************************************)
(* Bursts at a window boundary.                                            *)
(***************************************************************************)
\* the calls of the key allowed at the times from..to
RECURSIVE AllowedIn(_, _, _)
AllowedIn(k, from, to) ==
    IF from > to \/ from > MaxTime
    THEN 0
    ELSE grants.at[k][from] + AllowedIn(k, from + 1, to)

\* the most calls of a key allowed in a time span of length grants.win: the
\* span from s to s + grants.win, both ends included
MostInSpan(k) ==
    LET spans == {AllowedIn(k, s, s + grants.win) : s \in 0..MaxTime}
    IN CHOOSE n \in spans : \A m \in spans : m <= n

\* C31 as stated: with one N and one W, never more than 2 * N calls of a key
\* are allowed in a time span of length W.
C31_AtMostTwiceN ==
    grants.on => \A k \in Identifiers : MostInSpan(k) <= 2 * grants.max

\* C31, amended: with one N >= 1 and one W, never more than 2 * N - 1 calls of a
\* key are allowed in a time span of length W: the call that opens a window is
\* one of its N and the next window opens only after W is over, so the 2 * N
\* calls of two windows take longer than W.  With N <= 0 the call that opens
\* each window is allowed: one call in a span of length W, never more.
C31_AtMostTwiceNLessOne ==
    grants.on
        => \A k \in Identifiers :
             MostInSpan(k) <= IF grants.max >= 1 THEN 2 * grants.max - 1 ELSE 1

\* C31 witness: with N = 2 a span of length W holds three allowed calls of a
\* key, the last of one window and the first two of the next.
C31_Witness ==
    /\ grants.on
    /\ grants.max = 2
    /\ \E k \in Identifiers :
          /\ MostInSpan(k) = 3
          /\ \E t \in 0..MaxTime : grants.at[k][t] = 1 /\ AllowedIn(k, t, t + 1) = 3

=============================================================================
